---- MODULE Spec2Model ----
(***************************************************************************)
(* Model of the sender/receiver components of the Agora protocol library:  *)
(*   - SenderNegotiator.negotiate_protocol_for_task                        *)
(*       (src/sender/components/negotiator.py)                             *)
(*   - SenderProgrammer.__call__   (src/sender/components/programmer.py)   *)
(*   - ReceiverProtocolChecker.__call__                                    *)
(*       (src/receiver/components/protocol_checker.py)                     *)
(*                                                                         *)
(* A text is a sequence of one-character strings, so that find, replace,   *)
(* strip, lower and slicing work on characters as Python's str does.       *)
(* Fixed prompt literals that the code only concatenates and hands to a    *)
(* collaborator (never parses) are kept as one symbol each.                *)
(***************************************************************************)
EXTENDS Integers, Sequences, FiniteSets, TLC

VARIABLES
    component,        \* which object the caller constructed: "none" at start
    max_rounds,       \* SenderNegotiator.max_rounds
    npc,              \* per run: position inside negotiate_protocol_for_task
    n_i,              \* per run: loop variable i of "for i in range(max_rounds)"
    other_message,    \* per run: local other_message
    message,          \* per run: local message (last conversation reply)
    found_protocol,   \* per run: local found_protocol
    n_result,         \* per run: the value returned to the caller
    n_conv,           \* per run: history of the run's Conversation (turns)
    n_prompt,         \* per run: system prompt the Conversation was created with
    cb_args,          \* per run: the arguments callback was called with, in order
    cb_resps,         \* per run: the responses callback returned, in order
    n_error,          \* per run: the exception that left the call, or "none"
    num_attempts,     \* SenderProgrammer.num_attempts
    p_task_schema,    \* argument task_schema of SenderProgrammer.__call__
    p_protocol_document, \* argument protocol_document
    ppc,              \* position inside SenderProgrammer.__call__
    p_i,              \* number of completed loop iterations
    p_message,        \* local message
    implementation,   \* local implementation
    p_extracted,      \* the text extract_substring gave at the break
    p_conv,           \* history of the programmer's Conversation
    p_result,         \* value returned to the caller
    p_error,          \* exception that left __call__
    c_protocol_document, \* argument protocol_document of the checker's __call__
    c_tools,          \* argument tools
    cpc,              \* position inside ReceiverProtocolChecker.__call__
    c_message,        \* local message
    c_conv,           \* history of the checker's Conversation
    c_prompt,         \* prompt the checker's Conversation was created with
    c_conv_tools,     \* tools the checker's Conversation was created with
    c_convs,          \* number of Conversations the checker opened
    c_result,         \* value returned to the caller
    c_log,            \* the checks that returned, in order
    t_tool,           \* the Tool the caller constructed
    t_render,         \* per rendering of the Tool: what it returned
    t_call,           \* the last invocation of the Tool's function
    par_schema,       \* the schema a Parameter was reconstructed from
    par_param,        \* the Parameter the caller holds
    par_error,        \* the exception that left the reconstruction
    par_render,       \* per rendering of the Parameter: what it returned
    par_rebuilt,      \* outcome of from_standard_api(as_standard_api())
    l_pc,             \* position inside the earlier negotiate_protocol_for_task
    l_i,              \* its loop variable i of "for i in range(10)"
    l_error,          \* the exception that left it, or "none"
    l_result          \* the value it returned

vars == << component, max_rounds, npc, n_i, other_message, message,
           found_protocol, n_result, n_conv, n_prompt, cb_args, cb_resps,
           n_error, num_attempts, p_task_schema, p_protocol_document, ppc, p_i,
           p_message, implementation, p_extracted, p_conv, p_result, p_error,
           c_protocol_document, c_tools, cpc, c_message, c_conv, c_prompt,
           c_conv_tools, c_convs, c_result, c_log, t_tool, t_render, t_call,
           par_schema, par_param, par_error, par_render, par_rebuilt,
           l_pc, l_i, l_error, l_result >>

negVars == << max_rounds, npc, n_i, other_message, message, found_protocol,
              n_result, n_conv, n_prompt, cb_args, cb_resps, n_error >>
progVars == << num_attempts, p_task_schema, p_protocol_document, ppc, p_i,
               p_message, implementation, p_extracted, p_conv, p_result, p_error >>
checkVars == << c_protocol_document, c_tools, cpc, c_message, c_conv, c_prompt,
                c_conv_tools, c_convs, c_result, c_log >>
toolVars == << t_tool, t_render, t_call >>
paramVars == << par_schema, par_param, par_error, par_render, par_rebuilt >>
legacyVars == << l_pc, l_i, l_error, l_result >>

(***************************************************************************)
(* Bounds of the model.                                                    *)
(***************************************************************************)
MaxRounds == 3
MaxAttempts == 3
MaxImplChunks == 3
MaxReplyChunks == 3
MaxChecks == 2
MaxConcurrentRounds == 2

\* Python's None where a text is expected, and a local that was never assigned:
\* one-symbol sequences that are no text (a text holds single characters).
None == << "None" >>
Unbound == << "Unbound" >>

\* Python's None where an object is expected, and "the call has not returned".
NoneValue == [tag |-> "None"]
NotReturned == [tag |-> "NotReturned"]

Runs == {"run1", "run2"}

(***************************************************************************)
(* Python str operations on texts.                                         *)
(***************************************************************************)
\* s[a:b] for 0 <= a, b (Python slice with non-negative indices)
Slice(s, a, b) == SubSeq(s, a + 1, IF b > Len(s) THEN Len(s) ELSE b)

\* p occurs in s at 0-based index i
MatchAt(s, p, i) ==
    /\ i >= 0
    /\ i + Len(p) <= Len(s)
    /\ \A k \in 1..Len(p) : s[i + k] = p[k]

\* s.find(p, start): lowest index >= start where p occurs, or -1
RECURSIVE Find(_, _, _)
Find(s, p, start) ==
    IF start + Len(p) > Len(s) THEN -1
    ELSE IF MatchAt(s, p, start) THEN start
    ELSE Find(s, p, start + 1)

\* p in s
Contains(s, p) == Find(s, p, 0) # -1

\* s.replace(old, new): every non-overlapping occurrence, left to right
RECURSIVE Replace(_, _, _)
Replace(s, old, new) ==
    LET i == Find(s, old, 0)
    IN IF i = -1 THEN s
       ELSE Slice(s, 0, i) \o new
              \o Replace(Slice(s, i + Len(old), Len(s)), old, new)

\* The characters of a text.  A printable code point up to U+00FF is written
\* as itself, except the grave accent U+0060 (BT: a TLA+ string cannot hold
\* that character); tab, line feed, form feed and carriage return are written
\* "\t", "\n", "\f", "\r"; every other code point is written by its name
\* "U+XXXX".  The texts of the model are over the code points up to U+00FF,
\* the whitespace above them, and U+0130, U+0307, U+212A, U+212B.
BT == "GRAVE"

\* the characters c with c.isspace(): those str.strip() removes
Whitespace ==
    { "\t", "\n", "U+000B", "\f", "\r", "U+001C", "U+001D", "U+001E", "U+001F",
      " ", "U+0085", "U+00A0", "U+1680", "U+2000", "U+2001", "U+2002",
      "U+2003", "U+2004", "U+2005", "U+2006", "U+2007", "U+2008", "U+2009",
      "U+200A", "U+2028", "U+2029", "U+202F", "U+205F", "U+3000" }

\* number of whitespace characters at the start of s, from 1-based index i on
RECURSIVE LeadingWs(_, _)
LeadingWs(s, i) ==
    IF i > Len(s) \/ s[i] \notin Whitespace THEN 0 ELSE 1 + LeadingWs(s, i + 1)

\* number of whitespace characters at the end of s, from 1-based index j down
RECURSIVE TrailingWs(_, _)
TrailingWs(s, j) ==
    IF j < 1 \/ s[j] \notin Whitespace THEN 0 ELSE 1 + TrailingWs(s, j - 1)

\* s.strip()
Strip(s) ==
    LET a == LeadingWs(s, 1)
    IN IF a = Len(s) THEN << >>
       ELSE SubSeq(s, a + 1, Len(s) - TrailingWs(s, Len(s)))

\* the characters c.lower() changes, and what it gives for each, in the same
\* order (U+0130 becomes two characters)
UpperLetters ==
    << "A", "B", "C", "D", "E", "F", "G", "H", "I", "J", "K", "L", "M", "N",
       "O", "P", "Q", "R", "S", "T", "U", "V", "W", "X", "Y", "Z", "À", "Á",
       "Â", "Ã", "Ä", "Å", "Æ", "Ç", "È", "É", "Ê", "Ë", "Ì", "Í", "Î", "Ï",
       "Ð", "Ñ", "Ò", "Ó", "Ô", "Õ", "Ö", "Ø", "Ù", "Ú", "Û", "Ü", "Ý", "Þ",
       "U+0130", "U+212A", "U+212B" >>
LowerLetters ==
    << << "a" >>, << "b" >>, << "c" >>, << "d" >>, << "e" >>, << "f" >>,
       << "g" >>, << "h" >>, << "i" >>, << "j" >>, << "k" >>, << "l" >>,
       << "m" >>, << "n" >>, << "o" >>, << "p" >>, << "q" >>, << "r" >>,
       << "s" >>, << "t" >>, << "u" >>, << "v" >>, << "w" >>, << "x" >>,
       << "y" >>, << "z" >>, << "à" >>, << "á" >>, << "â" >>, << "ã" >>,
       << "ä" >>, << "å" >>, << "æ" >>, << "ç" >>, << "è" >>, << "é" >>,
       << "ê" >>, << "ë" >>, << "ì" >>, << "í" >>, << "î" >>, << "ï" >>,
       << "ð" >>, << "ñ" >>, << "ò" >>, << "ó" >>, << "ô" >>, << "õ" >>,
       << "ö" >>, << "ø" >>, << "ù" >>, << "ú" >>, << "û" >>, << "ü" >>,
       << "ý" >>, << "þ" >>, << "i", "U+0307" >>, << "k" >>, << "å" >> >>

\* c.lower(), a text of one or two characters
LowerChar(c) ==
    IF \E i \in 1..Len(UpperLetters) : UpperLetters[i] = c
    THEN LowerLetters[CHOOSE i \in 1..Len(UpperLetters) : UpperLetters[i] = c]
    ELSE << c >>

\* s.lower()
RECURSIVE Lower(_)
Lower(s) == IF s = << >> THEN << >> ELSE LowerChar(Head(s)) \o Lower(Tail(s))

\* s[-n:] for n > 0
Last(s, n) == IF Len(s) <= n THEN s ELSE SubSeq(s, Len(s) - n + 1, Len(s))

\* all concatenations of at most n chunks drawn from the sequence cs
RECURSIVE Concats(_, _)
Concats(cs, n) ==
    IF n = 0 THEN { << >> }
    ELSE LET Shorter == Concats(cs, n - 1)
         IN Shorter \cup { t \o cs[k] : t \in Shorter, k \in 1..Len(cs) }

(***************************************************************************)
(* Extraction grammar (utils.extract_substring, utils.extract_metadata).   *)
(***************************************************************************)
FINALPROTOCOL_OPEN ==
    << "<", "F", "I", "N", "A", "L", "P", "R", "O", "T", "O", "C", "O", "L", ">" >>
FINALPROTOCOL_CLOSE ==
    << "<", "/", "F", "I", "N", "A", "L", "P", "R", "O", "T", "O", "C", "O", "L", ">" >>

\* The text between the first start_tag and the first end_tag after it;
\* None when either is missing (also when the only end_tag precedes start_tag).
extract_substring(text, start_tag, end_tag) ==
    LET s == Find(text, start_tag, 0)
        e == IF s = -1 THEN -1 ELSE Find(text, end_tag, s + Len(start_tag))
    IN IF s = -1 \/ e = -1 THEN None
       ELSE Slice(text, s + Len(start_tag), e)

Dashes == << "-", "-", "-" >>
KeyName == << "n", "a", "m", "e", ":" >>
KeyDescription == << "d", "e", "s", "c", "r", "i", "p", "t", "i", "o", "n", ":" >>
KeyMultiround == << "m", "u", "l", "t", "i", "r", "o", "u", "n", "d", ":" >>
TrueText == << "t", "r", "u", "e" >>
UnnamedProtocol == << "Unnamed protocol" >>

\* The header of an extracted body: the lines between a pair of --- lines at
\* the top of the body; None when the body does not start with such a pair.
MetadataHeader(text) ==
    LET t == Strip(text)
    IN IF MatchAt(t, Dashes, 0) THEN extract_substring(t, Dashes, Dashes) ELSE None

\* The value of the "key: value" line of a header; None when no line has the key.
HeaderValue(header, key) ==
    LET h == << "\n" >> \o header
        i == Find(h, << "\n" >> \o key, 0)
        rest == Slice(h, i + 1 + Len(key), Len(h))
        j == Find(rest, << "\n" >>, 0)
    IN IF i = -1 THEN None
       ELSE Strip(IF j = -1 THEN rest ELSE Slice(rest, 0, j))

\* name / description / multiround of a body.  utils.extract_metadata is
\* imported by sender/components/negotiator.py and its code is not part of
\* the sources; this is the function the specification describes (header
\* between --- lines, "key: value" lines, "Unnamed protocol" / empty
\* description / false for a missing key).  The sentinel code the sources do
\* have is that of the earlier negotiator, LegacyFoundProtocol.
extract_metadata(text) ==
    LET header == MetadataHeader(text)
        value(key) == IF header = None THEN None ELSE HeaderValue(header, key)
    IN [ name |-> IF value(KeyName) = None THEN UnnamedProtocol ELSE value(KeyName),
         description |-> IF value(KeyDescription) = None THEN << >>
                         ELSE value(KeyDescription),
         multiround |-> IF value(KeyMultiround) = None THEN FALSE
                        ELSE Lower(value(KeyMultiround)) = TrueText ]

\* Protocol(protocol_document, sources, metadata)
Protocol(protocol_document, sources, metadata) ==
    [ tag |-> "Protocol", protocol_document |-> protocol_document,
      sources |-> sources, metadata |-> metadata ]

(***************************************************************************)
(* SenderNegotiator                                                        *)
(***************************************************************************)
TASK_NEGOTIATOR_PROMPT == << "TASK_NEGOTIATOR_PROMPT" >>
SchemaIntro == << "\nThe JSON schema of the task is the following:\n\n" >>
Greeting == << "Hello! How may I help you?" >>
ErrorPrefix == << "Error interacting with the other party: " >>

\* str(task_schema) of the tasks the caller negotiates for
TaskSchemaTexts == { << "{", "}" >> }
AdditionalInfos == { << >>, << "i" >> }

\* replies the negotiator's Conversation can give
PlainReply == << "o", "k" >>
\* a closing tag before the opening tag, and no closing tag after it
MalformedReply ==
    FINALPROTOCOL_CLOSE \o << "A" >> \o FINALPROTOCOL_OPEN \o << "B" >>
HeaderBody == << "-", "-", "-", "\n", "n", "a", "m", "e", ":", " ", "P", "\n",
                 "m", "u", "l", "t", "i", "r", "o", "u", "n", "d", ":", " ",
                 "T", "R", "U", "E", "\n", "-", "-", "-", "\n", "B" >>
HeaderBlockReply == FINALPROTOCOL_OPEN \o HeaderBody \o FINALPROTOCOL_CLOSE
BareBlockReply ==
    << "x" >> \o FINALPROTOCOL_OPEN \o << "A" >> \o FINALPROTOCOL_CLOSE \o << "y" >>
\* a block whose header gives the description and nothing else
DescriptionBlockReply ==
    FINALPROTOCOL_OPEN
        \o << "-", "-", "-", "\n", "d", "e", "s", "c", "r", "i", "p", "t", "i", "o",
              "n", ":", " ", "D", "\n", "-", "-", "-", "\n", "C" >>
        \o FINALPROTOCOL_CLOSE
NegReplies ==
    { PlainReply, MalformedReply, HeaderBlockReply, BareBlockReply,
      DescriptionBlockReply }

\* the dict {}
EmptyDict == [k \in {} |-> None]

\* responses other_party (callback) can give: the dicts of its contract, and
\* dicts that lack a key the negotiator reads
CallbackResponses ==
    { [status |-> "success", body |-> << "b", "1" >>],
      [status |-> "success", body |-> << "b", "2" >>],
      [status |-> "error", message |-> << "d", "o", "w", "n" >>],
      [status |-> "success"],
      [status |-> "error"],
      EmptyDict }

UserTurn(text) == [role |-> "user", content |-> text]
AssistantTurn(text) == [role |-> "assistant", content |-> text]
\* a call of the Conversation that failed: no reply was produced
FailedTurn == [role |-> "failure", content |-> << "ConversationError" >>]

\* mutant: the new Conversation carries the turns of the one opened before
M_new_conversation(prompt, tools, earlier) ==
    [prompt |-> prompt, tools |-> tools, history |-> earlier]

\* toolformer.new_conversation(prompt, tools): a Conversation without any turn,
\* whatever the turns (earlier) of the Conversation opened before it
new_conversation(prompt, tools, earlier) ==
    [prompt |-> prompt, tools |-> tools, history |-> << >>]

\* SenderNegotiator(toolformer, max_rounds)
NewNegotiator(R) ==
    /\ component = "none"
    /\ component' = "negotiator"
    /\ max_rounds' = R
    /\ UNCHANGED << npc, n_i, other_message, message, found_protocol, n_result,
                    n_conv, n_prompt, cb_args, cb_resps, n_error >>
    /\ UNCHANGED << progVars, checkVars, toolVars, paramVars,
                 legacyVars >>

\* SenderNegotiator(toolformer, max_rounds), constructed by a caller that
\* runs two negotiations on it at the same time
NewNegotiatorForConcurrentRuns(R) ==
    /\ component = "none"
    /\ component' = "concurrent_negotiations"
    /\ max_rounds' = R
    /\ UNCHANGED << npc, n_i, other_message, message, found_protocol, n_result,
                    n_conv, n_prompt, cb_args, cb_resps, n_error >>
    /\ UNCHANGED << progVars, checkVars, toolVars, paramVars,
                 legacyVars >>

\* the runs the caller of the negotiator starts
RunsOf(caller) ==
    CASE caller = "negotiator" -> {"run1"}
      [] caller = "concurrent_negotiations" -> Runs
      [] OTHER -> {}

\* the replies and responses the runs of that caller are given
NegRepliesOf(caller) ==
    IF caller = "concurrent_negotiations" THEN { PlainReply, BareBlockReply }
    ELSE NegReplies
CallbackResponsesOf(caller) ==
    IF caller = "concurrent_negotiations"
    THEN { [status |-> "success", body |-> << "b", "1" >>],
           [status |-> "error", message |-> << "d", "o", "w", "n" >>] }
    ELSE CallbackResponses

\* the system prompt of the negotiation
NegotiatorPrompt(task_schema_text, additional_info) ==
    LET prompt == TASK_NEGOTIATOR_PROMPT \o SchemaIntro \o task_schema_text
    IN IF additional_info # << >> THEN prompt \o << "\n", "\n" >> \o additional_info
       ELSE prompt

\* entry of negotiate_protocol_for_task up to the loop
NegStart(r, task_schema_text, additional_info) ==
    /\ r \in RunsOf(component)
    /\ npc[r] = "idle"
    /\ found_protocol' = [found_protocol EXCEPT ![r] = NoneValue]
    /\ n_prompt' = [n_prompt EXCEPT ![r] =
                        NegotiatorPrompt(task_schema_text, additional_info)]
    /\ n_conv' = [n_conv EXCEPT ![r] = << >>]
    /\ other_message' = [other_message EXCEPT ![r] = Greeting]
    /\ n_i' = [n_i EXCEPT ![r] = 0]
    /\ npc' = [npc EXCEPT ![r] = "loop"]
    /\ UNCHANGED << component, max_rounds, message, n_result, cb_args, cb_resps,
                    n_error >>
    /\ UNCHANGED << progVars, checkVars, toolVars, paramVars,
                 legacyVars >>

\* mutant: the loop bound is off by one
M_NegLoopContinues(i, rounds) == i <= rounds

\* "for i in range(self.max_rounds)": there is another iteration
NegLoopContinues(i, rounds) == i < rounds

\* mutant: the next conversation turn does not wait for other_party
M_NegSendWithoutWaiting(r) ==
    /\ npc[r] \in {"loop", "callback"}
    /\ NegLoopContinues(n_i[r], max_rounds)
    /\ n_conv' = [n_conv EXCEPT ![r] = Append(@, UserTurn(other_message[r]))]
    /\ npc' = [npc EXCEPT ![r] = "chat"]
    /\ UNCHANGED << component, max_rounds, n_i, other_message, message,
                    found_protocol, n_result, n_prompt, cb_args, cb_resps,
                    n_error >>
    /\ UNCHANGED << progVars, checkVars, toolVars, paramVars,
                 legacyVars >>

\* message = conversation(other_message): the call is made
NegSend(r) ==
    /\ npc[r] = "loop"
    /\ NegLoopContinues(n_i[r], max_rounds)
    /\ n_conv' = [n_conv EXCEPT ![r] = Append(@, UserTurn(other_message[r]))]
    /\ npc' = [npc EXCEPT ![r] = "chat"]
    /\ UNCHANGED << component, max_rounds, n_i, other_message, message,
                    found_protocol, n_result, n_prompt, cb_args, cb_resps,
                    n_error >>
    /\ UNCHANGED << progVars, checkVars, toolVars, paramVars,
                 legacyVars >>

\* mutant: the tags are kept in the body of the Protocol
M_NegBuildProtocol(protocol) ==
    Protocol(FINALPROTOCOL_OPEN \o protocol \o FINALPROTOCOL_CLOSE, << >>,
             extract_metadata(protocol))

\* mutant: the Protocol is exposed before its metadata are set
M_NegBuildPartialProtocol(protocol) == Protocol(protocol, << >>, NoneValue)

\* the Protocol built from an extracted block
NegBuildProtocol(protocol) == Protocol(protocol, << >>, extract_metadata(protocol))

\* mutant: other_party is not called for the reply of the last round
M_NegReplySkipsLastCallback(r, reply) ==
    /\ npc[r] = "chat"
    /\ n_conv' = [n_conv EXCEPT ![r] = Append(@, AssistantTurn(reply))]
    /\ message' = [message EXCEPT ![r] = reply]
    /\ LET protocol == extract_substring(reply, FINALPROTOCOL_OPEN, FINALPROTOCOL_CLOSE)
       IN IF protocol = None /\ n_i[r] + 1 >= max_rounds
          THEN /\ n_result' = [n_result EXCEPT ![r] = found_protocol[r]]
               /\ npc' = [npc EXCEPT ![r] = "returned"]
               /\ UNCHANGED << found_protocol, cb_args >>
          ELSE IF protocol = None
          THEN /\ cb_args' = [cb_args EXCEPT ![r] = Append(@, reply)]
               /\ npc' = [npc EXCEPT ![r] = "callback"]
               /\ UNCHANGED << found_protocol, n_result >>
          ELSE /\ found_protocol' = [found_protocol EXCEPT ![r] = NegBuildProtocol(protocol)]
               /\ n_result' = [n_result EXCEPT ![r] = NegBuildProtocol(protocol)]
               /\ npc' = [npc EXCEPT ![r] = "returned"]
               /\ UNCHANGED cb_args
    /\ UNCHANGED << component, max_rounds, n_i, other_message, n_prompt, cb_resps,
                    n_error >>
    /\ UNCHANGED << progVars, checkVars, toolVars, paramVars,
                 legacyVars >>

\* the conversation call returns reply; extraction; callback(message) is
\* called when nothing was extracted, else the Protocol is built and returned
NegReply(r, reply) ==
    /\ npc[r] = "chat"
    /\ n_conv' = [n_conv EXCEPT ![r] = Append(@, AssistantTurn(reply))]
    /\ message' = [message EXCEPT ![r] = reply]
    /\ LET protocol == extract_substring(reply, FINALPROTOCOL_OPEN, FINALPROTOCOL_CLOSE)
       IN IF protocol = None
          THEN /\ cb_args' = [cb_args EXCEPT ![r] = Append(@, reply)]
               /\ npc' = [npc EXCEPT ![r] = "callback"]
               /\ UNCHANGED << found_protocol, n_result >>
          ELSE /\ found_protocol' = [found_protocol EXCEPT ![r] = NegBuildProtocol(protocol)]
               /\ n_result' = [n_result EXCEPT ![r] = NegBuildProtocol(protocol)]
               /\ npc' = [npc EXCEPT ![r] = "returned"]
               /\ UNCHANGED cb_args
    /\ UNCHANGED << component, max_rounds, n_i, other_message, n_prompt, cb_resps,
                    n_error >>
    /\ UNCHANGED << progVars, checkVars, toolVars, paramVars,
                 legacyVars >>

\* mutant: a failed call ends the negotiation as if the rounds had run out
M_NegConversationRaises(r) ==
    /\ npc[r] = "chat"
    /\ n_conv' = [n_conv EXCEPT ![r] = Append(@, FailedTurn)]
    /\ n_result' = [n_result EXCEPT ![r] = found_protocol[r]]
    /\ npc' = [npc EXCEPT ![r] = "returned"]
    /\ UNCHANGED << component, max_rounds, n_i, other_message, message,
                    found_protocol, n_prompt, cb_args, cb_resps, n_error >>
    /\ UNCHANGED << progVars, checkVars, toolVars, paramVars,
                 legacyVars >>

\* the conversation call fails: the exception leaves negotiate_protocol_for_task
NegConversationRaises(r) ==
    /\ npc[r] = "chat"
    /\ n_conv' = [n_conv EXCEPT ![r] = Append(@, FailedTurn)]
    /\ npc' = [npc EXCEPT ![r] = "raised"]
    /\ n_error' = [n_error EXCEPT ![r] = "ConversationError"]
    /\ UNCHANGED << component, max_rounds, n_i, other_message, message,
                    found_protocol, n_result, n_prompt, cb_args, cb_resps >>
    /\ UNCHANGED << progVars, checkVars, toolVars, paramVars,
                 legacyVars >>

\* mutant: every response is reported as an error
M_NegNextMessageAlwaysError(response) ==
    ErrorPrefix \o (IF response.status = "success" THEN response.body
                    ELSE response.message)

\* reading response['status'], then response['body'] or response['message'],
\* raises KeyError
NegResponseKeyError(response) ==
    \/ "status" \notin DOMAIN response
    \/ response.status = "success" /\ "body" \notin DOMAIN response
    \/ response.status # "success" /\ "message" \notin DOMAIN response

\* the next outgoing message, from other_party's response
NegNextMessage(response) ==
    IF response.status = "success" THEN response.body
    ELSE ErrorPrefix \o response.message

\* mutant: the next outgoing message is kept on the instance, which the
\* runs share
M_NegCallbackReturnsShared(r, response) ==
    /\ npc[r] = "callback"
    /\ cb_resps' = [cb_resps EXCEPT ![r] = Append(@, response)]
    /\ IF NegResponseKeyError(response)
       THEN /\ npc' = [npc EXCEPT ![r] = "raised"]
            /\ n_error' = [n_error EXCEPT ![r] = "KeyError"]
            /\ UNCHANGED << other_message, n_i >>
       ELSE /\ other_message' = [q \in Runs |-> NegNextMessage(response)]
            /\ n_i' = [n_i EXCEPT ![r] = @ + 1]
            /\ npc' = [npc EXCEPT ![r] = "loop"]
            /\ UNCHANGED n_error
    /\ UNCHANGED << component, max_rounds, message, found_protocol, n_result,
                    n_conv, n_prompt, cb_args >>
    /\ UNCHANGED << progVars, checkVars, toolVars, paramVars,
                 legacyVars >>

\* callback(message) raises: there is no handler around the call, the
\* exception leaves negotiate_protocol_for_task
NegCallbackRaises(r) ==
    /\ npc[r] = "callback"
    /\ npc' = [npc EXCEPT ![r] = "raised"]
    /\ n_error' = [n_error EXCEPT ![r] = "CallbackError"]
    /\ UNCHANGED << component, max_rounds, n_i, other_message, message,
                    found_protocol, n_result, n_conv, n_prompt, cb_args,
                    cb_resps >>
    /\ UNCHANGED << progVars, checkVars, toolVars, paramVars,
                 legacyVars >>

\* callback(message) returns response; the rest of the loop body: the next
\* outgoing message is read from it, or a missing key raises KeyError
NegCallbackReturns(r, response) ==
    /\ npc[r] = "callback"
    /\ cb_resps' = [cb_resps EXCEPT ![r] = Append(@, response)]
    /\ IF NegResponseKeyError(response)
       THEN /\ npc' = [npc EXCEPT ![r] = "raised"]
            /\ n_error' = [n_error EXCEPT ![r] = "KeyError"]
            /\ UNCHANGED << other_message, n_i >>
       ELSE /\ other_message' = [other_message EXCEPT ![r] = NegNextMessage(response)]
            /\ n_i' = [n_i EXCEPT ![r] = @ + 1]
            /\ npc' = [npc EXCEPT ![r] = "loop"]
            /\ UNCHANGED n_error
    /\ UNCHANGED << component, max_rounds, message, found_protocol, n_result,
                    n_conv, n_prompt, cb_args >>
    /\ UNCHANGED << progVars, checkVars, toolVars, paramVars,
                 legacyVars >>

\* mutant: running out of rounds raises instead of returning None
M_NegReturnAfterLoop(r) ==
    /\ npc[r] = "loop"
    /\ ~NegLoopContinues(n_i[r], max_rounds)
    /\ npc' = [npc EXCEPT ![r] = "raised"]
    /\ UNCHANGED << component, max_rounds, n_i, other_message, message,
                    found_protocol, n_result, n_conv, n_prompt, cb_args, cb_resps,
                    n_error >>
    /\ UNCHANGED << progVars, checkVars, toolVars, paramVars,
                 legacyVars >>

\* the loop ran out: return found_protocol
NegReturnAfterLoop(r) ==
    /\ npc[r] = "loop"
    /\ ~NegLoopContinues(n_i[r], max_rounds)
    /\ n_result' = [n_result EXCEPT ![r] = found_protocol[r]]
    /\ npc' = [npc EXCEPT ![r] = "returned"]
    /\ UNCHANGED << component, max_rounds, n_i, other_message, message,
                    found_protocol, n_conv, n_prompt, cb_args, cb_resps,
                    n_error >>
    /\ UNCHANGED << progVars, checkVars, toolVars, paramVars,
                 legacyVars >>

(***************************************************************************)
(* The earlier SenderNegotiator (src/sender/negotiator.py): the metadata   *)
(* of the block are given in <NAME> and <DESCRIPTION> tags.  The module    *)
(* imports json only: the names make_default_toolformer, extract and chat  *)
(* that negotiate_protocol_for_task uses are globals of the module that    *)
(* the module itself does not bind.                                        *)
(***************************************************************************)
LegacyRounds == 10
NAME_OPEN == << "<", "N", "A", "M", "E", ">" >>
NAME_CLOSE == << "<", "/", "N", "A", "M", "E", ">" >>
DESCRIPTION_OPEN == << "<", "D", "E", "S", "C", "R", "I", "P", "T", "I", "O", "N", ">" >>
DESCRIPTION_CLOSE ==
    << "<", "/", "D", "E", "S", "C", "R", "I", "P", "T", "I", "O", "N", ">" >>
NoDescriptionProvided == << "No description provided" >>

\* replies the earlier negotiator's conversation can give
LegacyReplies ==
    { PlainReply,
      BareBlockReply,
      FINALPROTOCOL_OPEN \o NAME_OPEN \o << "P" >> \o NAME_CLOSE \o << "B" >>
          \o FINALPROTOCOL_CLOSE,
      FINALPROTOCOL_OPEN \o NAME_OPEN \o << "P" >> \o NAME_CLOSE
          \o DESCRIPTION_OPEN \o << "d" >> \o DESCRIPTION_CLOSE \o << "B" >>
          \o FINALPROTOCOL_CLOSE }

\* the found_protocol built from an extracted block
LegacyFoundProtocol(protocol) ==
    LET name == extract_substring(protocol, NAME_OPEN, NAME_CLOSE)
        description == extract_substring(protocol, DESCRIPTION_OPEN, DESCRIPTION_CLOSE)
    IN [tag |-> "dict",
        name |-> IF name = None THEN UnnamedProtocol ELSE name,
        description |-> IF description = None THEN NoDescriptionProvided
                        ELSE description,
        protocol |-> protocol]

\* negotiate_protocol_for_task(task_schema, target_node), a function without
\* self.  Called on an instance (on_instance): the call has one argument too
\* many and raises TypeError.  Called on the class with the module as it
\* stands: "toolformer = make_default_toolformer(prompt, [])" raises
\* NameError.  Called on the class with the three names bound in the
\* module's namespace (names_bound; extract is the repository's
\* extract_substring): the loop is entered.
LegacyStart(on_instance, names_bound) ==
    /\ component = "none"
    /\ component' = "legacy_negotiator"
    /\ l_pc' = IF on_instance \/ ~names_bound THEN "raised" ELSE "loop"
    /\ l_error' = IF on_instance THEN "TypeError"
                  ELSE IF ~names_bound THEN "NameError" ELSE "none"
    /\ l_i' = 0
    /\ l_result' = NotReturned
    /\ UNCHANGED << negVars, progVars, checkVars, toolVars, paramVars >>

\* message = conversation.chat(other_message): the call is made
LegacySend ==
    /\ l_pc = "loop"
    /\ l_i < LegacyRounds
    /\ l_pc' = "chat"
    /\ UNCHANGED << component, l_i, l_error, l_result >>
    /\ UNCHANGED << negVars, progVars, checkVars, toolVars, paramVars >>

\* the call returns reply; the other party is asked when nothing was
\* extracted, else found_protocol is built and returned
LegacyReply(reply) ==
    /\ l_pc = "chat"
    /\ LET protocol == extract_substring(reply, FINALPROTOCOL_OPEN, FINALPROTOCOL_CLOSE)
       IN IF protocol = None
          THEN /\ l_pc' = "other"
               /\ UNCHANGED l_result
          ELSE /\ l_pc' = "returned"
               /\ l_result' = LegacyFoundProtocol(protocol)
    /\ UNCHANGED << component, l_i, l_error >>
    /\ UNCHANGED << negVars, progVars, checkVars, toolVars, paramVars >>

\* conversation.chat(other_message, print_output=True) raises: nothing
\* handles it, the exception leaves negotiate_protocol_for_task
LegacyConversationRaises ==
    /\ l_pc = "chat"
    /\ l_pc' = "raised"
    /\ l_error' = "RuntimeError"
    /\ UNCHANGED << component, l_i, l_result >>
    /\ UNCHANGED << negVars, progVars, checkVars, toolVars, paramVars >>

\* what chat(message, conversation_id, target_node) can return: a pair, None,
\* or three values
LegacyOtherPartyResults == { "pair", "None", "triple" }

\* chat(message, conversation_id, target_node) returns and the result is
\* unpacked into other_message, conversation_id: a pair ends the loop body,
\* None raises TypeError and three values raise ValueError
LegacyOtherPartyReturns(result) ==
    /\ l_pc = "other"
    /\ IF result = "pair"
       THEN /\ l_pc' = "loop"
            /\ l_i' = l_i + 1
            /\ UNCHANGED l_error
       ELSE /\ l_pc' = "raised"
            /\ l_error' = IF result = "None" THEN "TypeError" ELSE "ValueError"
            /\ UNCHANGED l_i
    /\ UNCHANGED << component, l_result >>
    /\ UNCHANGED << negVars, progVars, checkVars, toolVars, paramVars >>

\* chat(message, conversation_id, target_node) raises: nothing handles it,
\* the exception leaves negotiate_protocol_for_task
LegacyOtherPartyRaises ==
    /\ l_pc = "other"
    /\ l_pc' = "raised"
    /\ l_error' = "ConnectionError"
    /\ UNCHANGED << component, l_i, l_result >>
    /\ UNCHANGED << negVars, progVars, checkVars, toolVars, paramVars >>

\* the loop ran out: return found_protocol (None)
LegacyReturnAfterLoop ==
    /\ l_pc = "loop"
    /\ l_i >= LegacyRounds
    /\ l_pc' = "returned"
    /\ l_result' = NoneValue
    /\ UNCHANGED << component, l_i, l_error >>
    /\ UNCHANGED << negVars, progVars, checkVars, toolVars, paramVars >>

(***************************************************************************)
(* json.dumps on JSON values: strings, ints, booleans, None, lists, and    *)
(* dicts with string keys (kv: the sequence of <<key, value>> pairs).      *)
(***************************************************************************)
JStr(text) == [t |-> "str", v |-> text]
JObj(kv) == [t |-> "obj", kv |-> kv]
JArr(items) == [t |-> "arr", items |-> items]
JInt(n) == [t |-> "int", n |-> n]
JBool(b) == [t |-> "bool", b |-> b]
JNull == [t |-> "null"]

\* sep.join(parts)
RECURSIVE Join(_, _)
Join(sep, parts) ==
    IF parts = << >> THEN << >>
    ELSE IF Len(parts) = 1 THEN parts[1]
    ELSE parts[1] \o sep \o Join(sep, Tail(parts))

\* the characters json.dumps does not write as themselves (ensure_ascii), and
\* what it writes for each, in the same order
JsonEscaped ==
    << "U+0000", "U+0001", "U+0002", "U+0003", "U+0004", "U+0005", "U+0006",
       "U+0007", "U+0008", "\t", "\n", "U+000B", "\f", "\r", "U+000E",
       "U+000F", "U+0010", "U+0011", "U+0012", "U+0013", "U+0014", "U+0015",
       "U+0016", "U+0017", "U+0018", "U+0019", "U+001A", "U+001B", "U+001C",
       "U+001D", "U+001E", "U+001F", "\"", "\\", "U+007F", "U+0080", "U+0081",
       "U+0082", "U+0083", "U+0084", "U+0085", "U+0086", "U+0087", "U+0088",
       "U+0089", "U+008A", "U+008B", "U+008C", "U+008D", "U+008E", "U+008F",
       "U+0090", "U+0091", "U+0092", "U+0093", "U+0094", "U+0095", "U+0096",
       "U+0097", "U+0098", "U+0099", "U+009A", "U+009B", "U+009C", "U+009D",
       "U+009E", "U+009F", "U+00A0", "¡", "¢", "£", "¤", "¥", "¦", "§", "¨",
       "©", "ª", "«", "¬", "U+00AD", "®", "¯", "°", "±", "²", "³", "´", "µ",
       "¶", "·", "¸", "¹", "º", "»", "¼", "½", "¾", "¿", "À", "Á", "Â", "Ã",
       "Ä", "Å", "Æ", "Ç", "È", "É", "Ê", "Ë", "Ì", "Í", "Î", "Ï", "Ð", "Ñ",
       "Ò", "Ó", "Ô", "Õ", "Ö", "×", "Ø", "Ù", "Ú", "Û", "Ü", "Ý", "Þ", "ß",
       "à", "á", "â", "ã", "ä", "å", "æ", "ç", "è", "é", "ê", "ë", "ì", "í",
       "î", "ï", "ð", "ñ", "ò", "ó", "ô", "õ", "ö", "÷", "ø", "ù", "ú", "û",
       "ü", "ý", "þ", "ÿ", "U+1680", "U+2000", "U+2001", "U+2002", "U+2003",
       "U+2004", "U+2005", "U+2006", "U+2007", "U+2008", "U+2009", "U+200A",
       "U+2028", "U+2029", "U+202F", "U+205F", "U+3000", "U+0130", "U+0307",
       "U+212A", "U+212B" >>
JsonEscapes ==
    << << "\\", "u", "0", "0", "0", "0" >>,
       << "\\", "u", "0", "0", "0", "1" >>,
       << "\\", "u", "0", "0", "0", "2" >>,
       << "\\", "u", "0", "0", "0", "3" >>,
       << "\\", "u", "0", "0", "0", "4" >>,
       << "\\", "u", "0", "0", "0", "5" >>,
       << "\\", "u", "0", "0", "0", "6" >>,
       << "\\", "u", "0", "0", "0", "7" >>, << "\\", "b" >>, << "\\", "t" >>,
       << "\\", "n" >>, << "\\", "u", "0", "0", "0", "b" >>, << "\\", "f" >>,
       << "\\", "r" >>, << "\\", "u", "0", "0", "0", "e" >>,
       << "\\", "u", "0", "0", "0", "f" >>,
       << "\\", "u", "0", "0", "1", "0" >>,
       << "\\", "u", "0", "0", "1", "1" >>,
       << "\\", "u", "0", "0", "1", "2" >>,
       << "\\", "u", "0", "0", "1", "3" >>,
       << "\\", "u", "0", "0", "1", "4" >>,
       << "\\", "u", "0", "0", "1", "5" >>,
       << "\\", "u", "0", "0", "1", "6" >>,
       << "\\", "u", "0", "0", "1", "7" >>,
       << "\\", "u", "0", "0", "1", "8" >>,
       << "\\", "u", "0", "0", "1", "9" >>,
       << "\\", "u", "0", "0", "1", "a" >>,
       << "\\", "u", "0", "0", "1", "b" >>,
       << "\\", "u", "0", "0", "1", "c" >>,
       << "\\", "u", "0", "0", "1", "d" >>,
       << "\\", "u", "0", "0", "1", "e" >>,
       << "\\", "u", "0", "0", "1", "f" >>, << "\\", "\"" >>, << "\\", "\\" >>,
       << "\\", "u", "0", "0", "7", "f" >>,
       << "\\", "u", "0", "0", "8", "0" >>,
       << "\\", "u", "0", "0", "8", "1" >>,
       << "\\", "u", "0", "0", "8", "2" >>,
       << "\\", "u", "0", "0", "8", "3" >>,
       << "\\", "u", "0", "0", "8", "4" >>,
       << "\\", "u", "0", "0", "8", "5" >>,
       << "\\", "u", "0", "0", "8", "6" >>,
       << "\\", "u", "0", "0", "8", "7" >>,
       << "\\", "u", "0", "0", "8", "8" >>,
       << "\\", "u", "0", "0", "8", "9" >>,
       << "\\", "u", "0", "0", "8", "a" >>,
       << "\\", "u", "0", "0", "8", "b" >>,
       << "\\", "u", "0", "0", "8", "c" >>,
       << "\\", "u", "0", "0", "8", "d" >>,
       << "\\", "u", "0", "0", "8", "e" >>,
       << "\\", "u", "0", "0", "8", "f" >>,
       << "\\", "u", "0", "0", "9", "0" >>,
       << "\\", "u", "0", "0", "9", "1" >>,
       << "\\", "u", "0", "0", "9", "2" >>,
       << "\\", "u", "0", "0", "9", "3" >>,
       << "\\", "u", "0", "0", "9", "4" >>,
       << "\\", "u", "0", "0", "9", "5" >>,
       << "\\", "u", "0", "0", "9", "6" >>,
       << "\\", "u", "0", "0", "9", "7" >>,
       << "\\", "u", "0", "0", "9", "8" >>,
       << "\\", "u", "0", "0", "9", "9" >>,
       << "\\", "u", "0", "0", "9", "a" >>,
       << "\\", "u", "0", "0", "9", "b" >>,
       << "\\", "u", "0", "0", "9", "c" >>,
       << "\\", "u", "0", "0", "9", "d" >>,
       << "\\", "u", "0", "0", "9", "e" >>,
       << "\\", "u", "0", "0", "9", "f" >>,
       << "\\", "u", "0", "0", "a", "0" >>,
       << "\\", "u", "0", "0", "a", "1" >>,
       << "\\", "u", "0", "0", "a", "2" >>,
       << "\\", "u", "0", "0", "a", "3" >>,
       << "\\", "u", "0", "0", "a", "4" >>,
       << "\\", "u", "0", "0", "a", "5" >>,
       << "\\", "u", "0", "0", "a", "6" >>,
       << "\\", "u", "0", "0", "a", "7" >>,
       << "\\", "u", "0", "0", "a", "8" >>,
       << "\\", "u", "0", "0", "a", "9" >>,
       << "\\", "u", "0", "0", "a", "a" >>,
       << "\\", "u", "0", "0", "a", "b" >>,
       << "\\", "u", "0", "0", "a", "c" >>,
       << "\\", "u", "0", "0", "a", "d" >>,
       << "\\", "u", "0", "0", "a", "e" >>,
       << "\\", "u", "0", "0", "a", "f" >>,
       << "\\", "u", "0", "0", "b", "0" >>,
       << "\\", "u", "0", "0", "b", "1" >>,
       << "\\", "u", "0", "0", "b", "2" >>,
       << "\\", "u", "0", "0", "b", "3" >>,
       << "\\", "u", "0", "0", "b", "4" >>,
       << "\\", "u", "0", "0", "b", "5" >>,
       << "\\", "u", "0", "0", "b", "6" >>,
       << "\\", "u", "0", "0", "b", "7" >>,
       << "\\", "u", "0", "0", "b", "8" >>,
       << "\\", "u", "0", "0", "b", "9" >>,
       << "\\", "u", "0", "0", "b", "a" >>,
       << "\\", "u", "0", "0", "b", "b" >>,
       << "\\", "u", "0", "0", "b", "c" >>,
       << "\\", "u", "0", "0", "b", "d" >>,
       << "\\", "u", "0", "0", "b", "e" >>,
       << "\\", "u", "0", "0", "b", "f" >>,
       << "\\", "u", "0", "0", "c", "0" >>,
       << "\\", "u", "0", "0", "c", "1" >>,
       << "\\", "u", "0", "0", "c", "2" >>,
       << "\\", "u", "0", "0", "c", "3" >>,
       << "\\", "u", "0", "0", "c", "4" >>,
       << "\\", "u", "0", "0", "c", "5" >>,
       << "\\", "u", "0", "0", "c", "6" >>,
       << "\\", "u", "0", "0", "c", "7" >>,
       << "\\", "u", "0", "0", "c", "8" >>,
       << "\\", "u", "0", "0", "c", "9" >>,
       << "\\", "u", "0", "0", "c", "a" >>,
       << "\\", "u", "0", "0", "c", "b" >>,
       << "\\", "u", "0", "0", "c", "c" >>,
       << "\\", "u", "0", "0", "c", "d" >>,
       << "\\", "u", "0", "0", "c", "e" >>,
       << "\\", "u", "0", "0", "c", "f" >>,
       << "\\", "u", "0", "0", "d", "0" >>,
       << "\\", "u", "0", "0", "d", "1" >>,
       << "\\", "u", "0", "0", "d", "2" >>,
       << "\\", "u", "0", "0", "d", "3" >>,
       << "\\", "u", "0", "0", "d", "4" >>,
       << "\\", "u", "0", "0", "d", "5" >>,
       << "\\", "u", "0", "0", "d", "6" >>,
       << "\\", "u", "0", "0", "d", "7" >>,
       << "\\", "u", "0", "0", "d", "8" >>,
       << "\\", "u", "0", "0", "d", "9" >>,
       << "\\", "u", "0", "0", "d", "a" >>,
       << "\\", "u", "0", "0", "d", "b" >>,
       << "\\", "u", "0", "0", "d", "c" >>,
       << "\\", "u", "0", "0", "d", "d" >>,
       << "\\", "u", "0", "0", "d", "e" >>,
       << "\\", "u", "0", "0", "d", "f" >>,
       << "\\", "u", "0", "0", "e", "0" >>,
       << "\\", "u", "0", "0", "e", "1" >>,
       << "\\", "u", "0", "0", "e", "2" >>,
       << "\\", "u", "0", "0", "e", "3" >>,
       << "\\", "u", "0", "0", "e", "4" >>,
       << "\\", "u", "0", "0", "e", "5" >>,
       << "\\", "u", "0", "0", "e", "6" >>,
       << "\\", "u", "0", "0", "e", "7" >>,
       << "\\", "u", "0", "0", "e", "8" >>,
       << "\\", "u", "0", "0", "e", "9" >>,
       << "\\", "u", "0", "0", "e", "a" >>,
       << "\\", "u", "0", "0", "e", "b" >>,
       << "\\", "u", "0", "0", "e", "c" >>,
       << "\\", "u", "0", "0", "e", "d" >>,
       << "\\", "u", "0", "0", "e", "e" >>,
       << "\\", "u", "0", "0", "e", "f" >>,
       << "\\", "u", "0", "0", "f", "0" >>,
       << "\\", "u", "0", "0", "f", "1" >>,
       << "\\", "u", "0", "0", "f", "2" >>,
       << "\\", "u", "0", "0", "f", "3" >>,
       << "\\", "u", "0", "0", "f", "4" >>,
       << "\\", "u", "0", "0", "f", "5" >>,
       << "\\", "u", "0", "0", "f", "6" >>,
       << "\\", "u", "0", "0", "f", "7" >>,
       << "\\", "u", "0", "0", "f", "8" >>,
       << "\\", "u", "0", "0", "f", "9" >>,
       << "\\", "u", "0", "0", "f", "a" >>,
       << "\\", "u", "0", "0", "f", "b" >>,
       << "\\", "u", "0", "0", "f", "c" >>,
       << "\\", "u", "0", "0", "f", "d" >>,
       << "\\", "u", "0", "0", "f", "e" >>,
       << "\\", "u", "0", "0", "f", "f" >>,
       << "\\", "u", "1", "6", "8", "0" >>,
       << "\\", "u", "2", "0", "0", "0" >>,
       << "\\", "u", "2", "0", "0", "1" >>,
       << "\\", "u", "2", "0", "0", "2" >>,
       << "\\", "u", "2", "0", "0", "3" >>,
       << "\\", "u", "2", "0", "0", "4" >>,
       << "\\", "u", "2", "0", "0", "5" >>,
       << "\\", "u", "2", "0", "0", "6" >>,
       << "\\", "u", "2", "0", "0", "7" >>,
       << "\\", "u", "2", "0", "0", "8" >>,
       << "\\", "u", "2", "0", "0", "9" >>,
       << "\\", "u", "2", "0", "0", "a" >>,
       << "\\", "u", "2", "0", "2", "8" >>,
       << "\\", "u", "2", "0", "2", "9" >>,
       << "\\", "u", "2", "0", "2", "f" >>,
       << "\\", "u", "2", "0", "5", "f" >>,
       << "\\", "u", "3", "0", "0", "0" >>,
       << "\\", "u", "0", "1", "3", "0" >>,
       << "\\", "u", "0", "3", "0", "7" >>,
       << "\\", "u", "2", "1", "2", "a" >>,
       << "\\", "u", "2", "1", "2", "b" >> >>

JsonEscapeChar(c) ==
    IF \E i \in 1..Len(JsonEscaped) : JsonEscaped[i] = c
    THEN JsonEscapes[CHOOSE i \in 1..Len(JsonEscaped) : JsonEscaped[i] = c]
    ELSE << c >>

RECURSIVE JsonEscape(_)
JsonEscape(text) ==
    IF text = << >> THEN << >>
    ELSE JsonEscapeChar(Head(text)) \o JsonEscape(Tail(text))

\* str(n) of an int
DecimalDigits == << "0", "1", "2", "3", "4", "5", "6", "7", "8", "9" >>
RECURSIVE IntText(_)
IntText(n) ==
    IF n < 0 THEN << "-" >> \o IntText(0 - n)
    ELSE IF n < 10 THEN << DecimalDigits[n + 1] >>
    ELSE IntText(n \div 10) \o << DecimalDigits[(n % 10) + 1] >>

JsonString(text) == << "\"" >> \o JsonEscape(text) \o << "\"" >>
JsonScalar(value) ==
    CASE value.t = "str" -> JsonString(value.v)
      [] value.t = "int" -> IntText(value.n)
      [] value.t = "bool" -> IF value.b THEN << "t", "r", "u", "e" >>
                             ELSE << "f", "a", "l", "s", "e" >>
      [] value.t = "null" -> << "n", "u", "l", "l" >>

\* json.dumps(value): strings, ints, booleans, None, lists and dicts with
\* string keys
RECURSIVE json_dumps(_)
RECURSIVE JsonMember(_)
JsonMember(pair) == JsonString(pair[1]) \o << ":", " " >> \o json_dumps(pair[2])
json_dumps(value) ==
    CASE value.t = "obj" ->
           << "{" >>
             \o Join(<< ",", " " >>,
                     [ k \in 1..Len(value.kv) |-> JsonMember(value.kv[k]) ])
             \o << "}" >>
      [] value.t = "arr" ->
           << "[" >>
             \o Join(<< ",", " " >>,
                     [ k \in 1..Len(value.items) |-> json_dumps(value.items[k]) ])
             \o << "]" >>
      [] OTHER -> JsonScalar(value)

\* the indentation of a line at the nesting depth level
JsonIndent(level) == [ k \in 1..(2 * level) |-> " " ]

\* json.dumps(value, indent=2) of a value nested at depth level
RECURSIVE JsonIndented(_, _)
JsonIndented(value, level) ==
    CASE value.t = "obj" ->
           IF value.kv = << >> THEN << "{", "}" >>
           ELSE << "{", "\n" >>
                  \o Join(<< ",", "\n" >>,
                          [ k \in 1..Len(value.kv) |->
                              JsonIndent(level + 1) \o JsonString(value.kv[k][1])
                                \o << ":", " " >>
                                \o JsonIndented(value.kv[k][2], level + 1) ])
                  \o << "\n" >> \o JsonIndent(level) \o << "}" >>
      [] value.t = "arr" ->
           IF value.items = << >> THEN << "[", "]" >>
           ELSE << "[", "\n" >>
                  \o Join(<< ",", "\n" >>,
                          [ k \in 1..Len(value.items) |->
                              JsonIndent(level + 1)
                                \o JsonIndented(value.items[k], level + 1) ])
                  \o << "\n" >> \o JsonIndent(level) \o << "]" >>
      [] OTHER -> JsonScalar(value)

\* json.dumps(value, indent=2)
json_dumps_indent2(value) == JsonIndented(value, 0)

(***************************************************************************)
(* SenderProgrammer                                                        *)
(***************************************************************************)
TASK_PROGRAMMER_PROMPT == << "TASK_PROGRAMMER_PROMPT" >>
IMPLEMENTATION_OPEN ==
    << "<", "I", "M", "P", "L", "E", "M", "E", "N", "T", "A", "T", "I", "O", "N", ">" >>
IMPLEMENTATION_CLOSE ==
    << "<", "/", "I", "M", "P", "L", "E", "M", "E", "N", "T", "A", "T", "I", "O", "N", ">" >>
JsonSchemaIntro == << "J", "S", "O", "N", " ", "s", "c", "h", "e", "m", "a", ":", "\n", "\n" >>
ProtocolDocumentIntro ==
    << "P", "r", "o", "t", "o", "c", "o", "l", " ", "d", "o", "c", "u", "m", "e", "n", "t",
       ":", "\n", "\n" >>
CorrectiveMessage ==
    << "You have not provided an implementation yet. Please provide one by surrounding it in the tags <IMPLEMENTATION> and </IMPLEMENTATION>." >>
FencePython == << BT, BT, BT, "p", "y", "t", "h", "o", "n" >>
Fence == << BT, BT, BT >>
DefSendQuery ==
    << "d", "e", "f", " ", "s", "e", "n", "d", "_", "q", "u", "e", "r", "y", "(" >>
DefRun == << "d", "e", "f", " ", "r", "u", "n", "(" >>

\* the task schemas and protocol documents the caller passes
NestedTaskSchema ==
    JObj(<< << << "i", "n", "p", "u", "t" >>,
               JObj(<< << << "x" >>, JStr(<< "n", "u", "m", "b", "e", "r" >>) >> >>) >>,
            << << "o", "u", "t", "p", "u", "t" >>,
               JObj(<< << << "y" >>, JStr(<< "a", "\"", "\\", "\n", "É" >>) >> >>) >> >>)
TaskSchemas ==
    { JObj(<< >>), JObj(<< << << "x" >>, JStr(<< "n" >>) >> >>), NestedTaskSchema }
ProtocolDocuments == { << "D" >> }

\* pieces the backend's implementation texts are made of: fences without a
\* language marker and with the markers python, py, Python (and python3,
\* with the piece "3"), partial fences, newlines, the entry point whole and
\* split
ImplChunks ==
    << FencePython, Fence, << BT, BT >>, << "\n" >>, DefSendQuery,
       << "d", "e", "f", " ", "s", "e", "n", "d" >>,
       << "_", "q", "u", "e", "r", "y", "(" >>,
       << BT, BT, BT, "p", "y" >>,
       << BT, BT, BT, "P", "y", "t", "h", "o", "n" >>,
       << "3" >> >>
ImplTexts == Concats(ImplChunks, MaxImplChunks)

\* implementation texts the backend gives in answer to the corrective message
RetryImplTexts ==
    { FencePython \o << "\n" >> \o DefSendQuery \o << "\n" >> \o Fence,
      DefRun \o DefSendQuery }

\* replies the programmer's Conversation can give after i failed attempts:
\* the first reply ranges over every implementation text
NoImplReplies == { << "n", "o" >>, IMPLEMENTATION_OPEN \o << "x" >> }
ImplReply(t) == << BT >> \o IMPLEMENTATION_OPEN \o t \o IMPLEMENTATION_CLOSE \o << BT >>
ProgReplies(i) ==
    NoImplReplies
        \cup { ImplReply(t) : t \in (IF i = 0 THEN ImplTexts ELSE RetryImplTexts) }

\* SenderProgrammer(toolformer, num_attempts)
NewProgrammer(N) ==
    /\ component = "none"
    /\ component' = "programmer"
    /\ num_attempts' = N
    /\ UNCHANGED << p_task_schema, p_protocol_document, ppc, p_i, p_message,
                    implementation, p_extracted, p_conv, p_result, p_error >>
    /\ UNCHANGED << negVars, checkVars, toolVars, paramVars,
                 legacyVars >>

\* the first message of a synthesis
ProgFirstMessage(task_schema, protocol_document) ==
    JsonSchemaIntro \o json_dumps(task_schema) \o << "\n", "\n" >>
        \o ProtocolDocumentIntro \o protocol_document

\* entry of __call__ up to the loop
ProgStart(task_schema, protocol_document) ==
    /\ component = "programmer"
    /\ ppc = "idle"
    /\ p_task_schema' = task_schema
    /\ p_protocol_document' = protocol_document
    /\ p_conv' = << >>
    /\ p_message' = ProgFirstMessage(task_schema, protocol_document)
    /\ p_i' = 0
    /\ ppc' = "loop"
    /\ UNCHANGED << component, num_attempts, implementation, p_extracted,
                    p_result, p_error >>
    /\ UNCHANGED << negVars, checkVars, toolVars, paramVars,
                 legacyVars >>

\* "for _ in range(self.num_attempts)": there is another iteration
ProgLoopContinues(i, attempts) == i < attempts

\* reply = conversation.chat(message): the call is made
ProgSend ==
    /\ ppc = "loop"
    /\ ProgLoopContinues(p_i, num_attempts)
    /\ p_conv' = Append(p_conv, UserTurn(p_message))
    /\ ppc' = "chat"
    /\ UNCHANGED << component, num_attempts, p_task_schema, p_protocol_document,
                    p_i, p_message, implementation,
                    p_extracted, p_result, p_error >>
    /\ UNCHANGED << negVars, checkVars, toolVars, paramVars,
                 legacyVars >>

\* strip, drop the Markdown fences, strip, rename the entry point
ProgSanitize(impl) ==
    LET stripped == Strip(impl)
        unfenced == Strip(Replace(Replace(stripped, FencePython, << >>), Fence, << >>))
    IN Replace(unfenced, DefSendQuery, DefRun)

\* the code after the loop, on the value the loop left in implementation
ProgAfterLoop(impl) ==
    IF impl = Unbound THEN [tag |-> "raise", error |-> "UnboundLocalError"]
    ELSE IF impl = None THEN [tag |-> "raise", error |-> "AttributeError"]
    ELSE [tag |-> "return", value |-> ProgSanitize(impl)]

\* mutant: the message is not replaced, the first message is sent again
M_ProgNextMessage(current) == current

\* what the message becomes after a reply without an implementation
ProgNextMessage(current) == CorrectiveMessage

\* mutant: "if implementation: break", an empty implementation does not break
M_ProgBreaks(extracted) == extracted # None /\ extracted # << >>

\* "if implementation is not None: break"
ProgBreaks(extracted) == extracted # None

\* the conversation call returns reply; extraction; break and the code after
\* the loop when an implementation was extracted, else the corrective message
ProgReply(reply) ==
    /\ ppc = "chat"
    /\ p_conv' = Append(p_conv, AssistantTurn(reply))
    /\ LET extracted == extract_substring(reply, IMPLEMENTATION_OPEN, IMPLEMENTATION_CLOSE)
           outcome == ProgAfterLoop(extracted)
       IN IF ProgBreaks(extracted)
          THEN /\ p_extracted' = extracted
               /\ implementation' = outcome.value
               /\ p_result' = [tag |-> "Text", text |-> outcome.value]
               /\ ppc' = "returned"
               /\ UNCHANGED << p_i, p_message >>
          ELSE /\ implementation' = extracted
               /\ p_message' = ProgNextMessage(p_message)
               /\ p_i' = p_i + 1
               /\ ppc' = "loop"
               /\ UNCHANGED << p_extracted, p_result >>
    /\ UNCHANGED << component, num_attempts, p_task_schema, p_protocol_document,
                    p_error >>
    /\ UNCHANGED << negVars, checkVars, toolVars, paramVars,
                 legacyVars >>

\* the conversation call fails: the exception leaves __call__
ProgConversationRaises ==
    /\ ppc = "chat"
    /\ p_conv' = Append(p_conv, FailedTurn)
    /\ ppc' = "raised"
    /\ p_error' = "ConversationError"
    /\ UNCHANGED << component, num_attempts, p_task_schema, p_protocol_document,
                    p_i, p_message, implementation,
                    p_extracted, p_result >>
    /\ UNCHANGED << negVars, checkVars, toolVars, paramVars,
                 legacyVars >>

\* the loop ran out without a break: the code after the loop
ProgLoopExhausted ==
    /\ ppc = "loop"
    /\ ~ProgLoopContinues(p_i, num_attempts)
    /\ LET outcome == ProgAfterLoop(implementation)
       IN IF outcome.tag = "raise"
          THEN /\ ppc' = "raised"
               /\ p_error' = outcome.error
               /\ UNCHANGED << implementation, p_result >>
          ELSE /\ ppc' = "returned"
               /\ implementation' = outcome.value
               /\ p_result' = [tag |-> "Text", text |-> outcome.value]
               /\ UNCHANGED p_error
    /\ UNCHANGED << component, num_attempts, p_task_schema, p_protocol_document,
                    p_i, p_message, p_extracted, p_conv >>
    /\ UNCHANGED << negVars, checkVars, toolVars, paramVars,
                 legacyVars >>

(***************************************************************************)
(* Tool and Parameter: the documented form (toolformers/base.py)           *)
(***************************************************************************)
StringParameter(name, description, required) ==
    [kind |-> "string", name |-> name, description |-> description,
     required |-> required]
EnumParameter(name, description, values, required) ==
    [kind |-> "enum", name |-> name, description |-> description,
     values |-> values, required |-> required]
NumberParameter(name, description, required) ==
    [kind |-> "number", name |-> name, description |-> description,
     required |-> required]
ArrayParameter(name, description, required, item_schema) ==
    [kind |-> "array", name |-> name, description |-> description,
     required |-> required, item_schema |-> item_schema]
Tool(name, description, parameters, output_schema) ==
    [name |-> name, description |-> description, parameters |-> parameters,
     output_schema |-> output_schema]

RequiredMark(p) == IF p.required THEN << ", required" >> ELSE << >>

\* Parameter.as_documented_python of each variant
ParameterDocumentedPython(p) ==
    CASE p.kind = "string" ->
           p.name \o << " (str" >> \o RequiredMark(p) \o << "): " >> \o p.description
               \o << "." >>
      [] p.kind = "enum" ->
           p.name \o << " (str" >> \o RequiredMark(p) \o << "): " >> \o p.description
               \o << ". Possible values: " >> \o Join(<< ",", " " >>, p.values)
      [] p.kind = "number" ->
           p.name \o << " (number): " >> \o p.description
      [] p.kind = "array" ->
           p.name \o << " (list): " >> \o p.description
               \o << ". Each item should follow the JSON schema: " >>
               \o json_dumps(p.item_schema)

\* Tool.as_documented_python
ToolDocumentedPython(tool) ==
    << "Tool " >> \o tool.name \o << ":\n\n" >> \o tool.description
        \o << "\nParameters:\n" >>
        \o (IF Len(tool.parameters) = 0 THEN << "No parameters." >>
            ELSE Join(<< >>, [ k \in 1..Len(tool.parameters) |->
                     << "\t" >> \o ParameterDocumentedPython(tool.parameters[k])
                         \o << "\n" >> ]))
        \o (IF tool.output_schema # NoneValue
            THEN << "\\Returns a dictionary with schema: " >>
                     \o json_dumps_indent2(tool.output_schema)
            ELSE << >>)

\* what a rendering returned
Rendered(value) == [tag |-> "Rendered", value |-> value]

\* the forms a Tool is rendered in, and those of a Parameter
ToolForms == {"openai", "gemini", "llama", "natural", "standard", "documented"}
ParameterForms == {"openai", "gemini", "natural", "standard", "documented"}

ToolA ==
    Tool(<< "f" >>, << "F" >>,
         << StringParameter(<< "s" >>, << "S" >>, TRUE),
            EnumParameter(<< "e" >>, << "E" >>, << << "u" >>, << "v" >> >>, FALSE),
            NumberParameter(<< "n" >>, << "N" >>, TRUE),
            ArrayParameter(<< "a" >>, << "A" >>, FALSE,
                           JObj(<< << << "t" >>, JStr(<< "s" >>) >> >>)) >>,
         NoneValue)
ToolB ==
    Tool(<< "g" >>, << "G" >>, << >>, JObj(<< << << "r" >>, JStr(<< "s" >>) >> >>))

ToolC ==
    Tool(<< "h" >>, << "H" >>,
         << NumberParameter(<< "n" >>, << "N" >>, FALSE),
            EnumParameter(<< "e" >>, << "E" >>, << << "u" >> >>, TRUE) >>,
         JObj(<< << << "r" >>,
                    JObj(<< << << "t" >>, JStr(<< "s" >>) >>,
                            << << "q" >>,
                               JArr(<< JInt(10), JBool(TRUE), JNull, JArr(<< >>),
                                       JObj(<< >>) >>) >> >>) >> >>))

\* the Tools the caller constructs
Tools == { ToolA, ToolB, ToolC }

\* what the Tool's function does when it is invoked: it returns a value
\* (a text, or None) or raises an Exception e, text being str(e)
FunctionOutcomes ==
    { [kind |-> "return", value |-> << "r" >>],
      [kind |-> "return", value |-> None],
      [kind |-> "raise", text |-> << "b", "o", "o", "m" >>],
      [kind |-> "raise", text |-> << >>] }

ToolCallFailed == << "Tool call failed: " >>

\* Tool(name, description, parameters, function, output_schema)
NewTool(tool) ==
    /\ component = "none"
    /\ component' = "tool"
    /\ t_tool' = tool
    /\ UNCHANGED << t_render, t_call >>
    /\ UNCHANGED << negVars, progVars, checkVars, paramVars,
                 legacyVars >>

\* mutant: the failure text is dropped from the diagnostic
M_call_tool_for_toolformer(outcome) ==
    IF outcome.kind = "raise"
    THEN [kind |-> "return", value |-> ToolCallFailed]
    ELSE outcome

\* Tool.call_tool_for_toolformer: what the call does, given what the function does
call_tool_for_toolformer(outcome) ==
    IF outcome.kind = "raise"
    THEN [kind |-> "return", value |-> ToolCallFailed \o outcome.text]
    ELSE outcome

\* the function made by Tool.as_executable_function: no handler around the call
as_executable_function(outcome) == outcome

\* the reasoning backend invokes the Tool
ToolCallForToolformer(outcome) ==
    /\ component = "tool"
    /\ t_call' = [via |-> "toolformer", outcome |-> outcome,
                  result |-> call_tool_for_toolformer(outcome)]
    /\ UNCHANGED << component, t_tool, t_render >>
    /\ UNCHANGED << negVars, progVars, checkVars, paramVars,
                 legacyVars >>

\* a routine invokes the Tool through its executable function
ToolCallExecutable(outcome) ==
    /\ component = "tool"
    /\ t_call' = [via |-> "routine", outcome |-> outcome,
                  result |-> as_executable_function(outcome)]
    /\ UNCHANGED << component, t_tool, t_render >>
    /\ UNCHANGED << negVars, progVars, checkVars, paramVars,
                 legacyVars >>

(***************************************************************************)
(* Parameter: renderings and reconstruction (toolformers/base.py)          *)
(***************************************************************************)
\* Parameter.as_openai_info of each variant
ParameterOpenaiInfo(p) ==
    CASE p.kind = "string" ->
           [type |-> "string", name |-> p.name, description |-> p.description]
      [] p.kind = "enum" ->
           [type |-> "string", description |-> p.description, values |-> p.values]
      [] p.kind = "number" ->
           [type |-> "number", description |-> p.description]
      [] p.kind = "array" ->
           [type |-> "array", description |-> p.description, items |-> p.item_schema]

\* Parameter.as_standard_api of each variant
ParameterStandardApi(p) ==
    CASE p.kind = "string" ->
           [type |-> "string", name |-> p.name, description |-> p.description,
            required |-> p.required]
      [] p.kind = "enum" ->
           [type |-> "enum", name |-> p.name, description |-> p.description,
            values |-> p.values, required |-> p.required]
      [] p.kind = "number" ->
           [type |-> "number", name |-> p.name, description |-> p.description,
            required |-> p.required]
      [] p.kind = "array" ->
           [type |-> "array", name |-> p.name, description |-> p.description,
            required |-> p.required, item_schema |-> p.item_schema]

\* Parameter.as_natural_language of each variant
ParameterNaturalLanguage(p) ==
    CASE p.kind = "string" ->
           p.name \o << " (string" >> \o RequiredMark(p) \o << "): " >> \o p.description
               \o << "." >>
      [] p.kind = "enum" ->
           p.name \o << " (enum" >> \o RequiredMark(p) \o << "): " >> \o p.description
               \o << ". Possible values: " >> \o Join(<< ",", " " >>, p.values)
      [] p.kind = "number" ->
           p.name \o << " (number): " >> \o p.description
      [] p.kind = "array" ->
           p.name \o << " (array): " >> \o p.description
               \o << ". Each item should follow the JSON schema: " >>
               \o json_dumps(p.item_schema)

\* mutant: the values of an enum are left out
M_ParameterGeminiTool(p) ==
    CASE p.kind = "array" ->
           [description |-> p.description, type |-> "array", items |-> p.item_schema]
      [] OTHER ->
           [description |-> p.description,
            type |-> IF p.kind = "number" THEN "number" ELSE "string"]

\* Parameter.as_gemini_tool of each variant
ParameterGeminiTool(p) ==
    CASE p.kind = "string" ->
           [type |-> "string", description |-> p.description]
      [] p.kind = "enum" ->
           [description |-> p.description, type |-> "string", enum |-> p.values]
      [] p.kind = "number" ->
           [description |-> p.description, type |-> "number"]
      [] p.kind = "array" ->
           [description |-> p.description, type |-> "array", items |-> p.item_schema]

\* the rendering of p in one of the forms
ParameterRendering(form, p) ==
    CASE form = "openai" -> ParameterOpenaiInfo(p)
      [] form = "gemini" -> ParameterGeminiTool(p)
      [] form = "natural" -> ParameterNaturalLanguage(p)
      [] form = "standard" -> ParameterStandardApi(p)
      [] form = "documented" -> ParameterDocumentedPython(p)

\* <class of the variant>.from_standard_api(api_info): StringParameter and
\* EnumParameter define it, NumberParameter and ArrayParameter have no such
\* attribute
from_standard_api(kind, api_info) ==
    CASE kind = "string" ->
           [kind |-> "return",
            value |-> StringParameter(api_info.name, api_info.description,
                                      api_info.required)]
      [] kind = "enum" ->
           [kind |-> "return",
            value |-> EnumParameter(api_info.name, api_info.description,
                                    api_info.values, api_info.required)]
      [] OTHER -> [kind |-> "raise", error |-> "AttributeError"]

\* the item schema of the array parameters
ItemSchema == JObj(<< << << "t" >>, JStr(<< "s" >>) >> >>)

\* the Parameters the caller constructs: every variant, required and optional
Parameters ==
    UNION { { StringParameter(<< "s" >>, << "S" >>, required),
              EnumParameter(<< "e" >>, << "E" >>, << << "u" >>, << "v" >> >>, required),
              NumberParameter(<< "n" >>, << "N" >>, required),
              ArrayParameter(<< "a" >>, << "A" >>, required, ItemSchema) }
            : required \in BOOLEAN }

\* StringParameter(...), EnumParameter(...), NumberParameter(...), ArrayParameter(...)
NewParameter(p) ==
    /\ component = "none"
    /\ component' = "parameter"
    /\ par_param' = p
    /\ UNCHANGED << par_schema, par_error, par_render, par_rebuilt >>
    /\ UNCHANGED << negVars, progVars, checkVars, toolVars,
                 legacyVars >>

\* the schemas a Parameter is reconstructed from
OpenaiSchemas ==
    { [type |-> "string", description |-> << "S" >>],
      [type |-> "string", description |-> << "E" >>, enum |-> << << "u" >>, << "v" >> >>],
      [type |-> "number", description |-> << "N" >>],
      [type |-> "array", description |-> << "A" >>, items |-> ItemSchema],
      [type |-> "enum", description |-> << "E" >>, values |-> << << "u" >> >>],
      [type |-> "boolean", description |-> << "B" >>],
      [type |-> "object", description |-> << "O" >>, enum |-> << << "u" >> >>],
      [type |-> "array", description |-> << "A" >>],
      [description |-> << "D" >>] }

UnknownParameterType == << "Unknown parameter type: " >>

\* parameter_from_openai_api(parameter_name, schema, required); a key that
\* the schema lacks raises KeyError
parameter_from_openai_api(parameter_name, schema, required) ==
    LET has(key) == key \in DOMAIN schema
        KeyError == [kind |-> "raise", error |-> "KeyError"]
    IN IF has("enum")
       THEN IF ~has("description") THEN KeyError
            ELSE [kind |-> "return",
                  value |-> EnumParameter(parameter_name, schema.description,
                                          schema.enum, required)]
       ELSE IF ~has("type") THEN KeyError
       ELSE IF schema.type = "string"
       THEN IF ~has("description") THEN KeyError
            ELSE [kind |-> "return",
                  value |-> StringParameter(parameter_name, schema.description, required)]
       ELSE IF schema.type = "number"
       THEN IF ~has("description") THEN KeyError
            ELSE [kind |-> "return",
                  value |-> NumberParameter(parameter_name, schema.description, required)]
       ELSE IF schema.type = "array"
       THEN IF ~has("description") \/ ~has("items") THEN KeyError
            ELSE [kind |-> "return",
                  value |-> ArrayParameter(parameter_name, schema.description, required,
                                           schema.items)]
       ELSE [kind |-> "raise", error |-> "ValueError",
             text |-> UnknownParameterType \o << schema.type >>]

\* the caller reconstructs a Parameter from a schema
ParameterFromOpenaiApi(parameter_name, schema, required) ==
    /\ component = "none"
    /\ component' = "parameter"
    /\ par_schema' = schema
    /\ LET outcome == parameter_from_openai_api(parameter_name, schema, required)
       IN IF outcome.kind = "return"
          THEN /\ par_param' = outcome.value
               /\ UNCHANGED par_error
          ELSE /\ par_error' = outcome.error
               /\ UNCHANGED par_param
    /\ UNCHANGED << par_render, par_rebuilt >>
    /\ UNCHANGED << negVars, progVars, checkVars, toolVars,
                 legacyVars >>

\* one of the renderings of the Parameter is asked for
ParamRender(form) ==
    /\ component = "parameter"
    /\ par_param # NoneValue
    /\ par_render[form] = NotReturned
    /\ par_render' = [par_render EXCEPT ![form] =
                        Rendered(ParameterRendering(form, par_param))]
    /\ UNCHANGED << component, par_schema, par_param, par_error, par_rebuilt >>
    /\ UNCHANGED << negVars, progVars, checkVars, toolVars,
                 legacyVars >>

\* type(p).from_standard_api(p.as_standard_api())
ParamRoundTrip ==
    /\ component = "parameter"
    /\ par_param # NoneValue
    /\ par_rebuilt = NotReturned
    /\ par_rebuilt' = from_standard_api(par_param.kind, ParameterStandardApi(par_param))
    /\ UNCHANGED << component, par_schema, par_param, par_error, par_render >>
    /\ UNCHANGED << negVars, progVars, checkVars, toolVars,
                 legacyVars >>

(***************************************************************************)
(* Tool: renderings (toolformers/base.py)                                  *)
(***************************************************************************)
\* {parameter.name : <rendering of parameter> for parameter in parameters}:
\* a later parameter of the same name replaces an earlier one
Properties(parameters, form) ==
    [ n \in { parameters[k].name : k \in 1..Len(parameters) } |->
        LET last == CHOOSE k \in 1..Len(parameters) :
                        /\ parameters[k].name = n
                        /\ \A j \in (k + 1)..Len(parameters) : parameters[j].name # n
        IN ParameterRendering(form, parameters[last]) ]

\* [parameter.name for parameter in parameters if parameter.required]
RequiredNames(parameters) ==
    LET IsRequired(p) == p.required
        required == SelectSeq(parameters, IsRequired)
    IN [ k \in 1..Len(required) |-> required[k].name ]

\* Tool.as_openai_info
ToolOpenaiInfo(tool) ==
    [type |-> "function",
     function |->
        [name |-> tool.name,
         description |-> tool.description,
         parameters |->
            [type |-> "object",
             properties |-> Properties(tool.parameters, "openai"),
             required |-> RequiredNames(tool.parameters)]]]

\* Tool.as_gemini_tool: the arguments the declaration is made with
ToolGeminiTool(tool) ==
    [function_declarations |->
        << [name |-> tool.name,
            description |-> tool.description,
            parameters |->
                IF Len(tool.parameters) = 0 THEN NoneValue
                ELSE [type |-> "object",
                      properties |-> Properties(tool.parameters, "gemini"),
                      required |-> RequiredNames(tool.parameters)],
            function |-> "call_tool_for_toolformer"] >>]

\* Tool.as_llama_schema
ToolLlamaSchema(tool) ==
    IF tool.output_schema # NoneValue
    THEN [name |-> tool.name,
          description |-> tool.description,
          parameters |-> Properties(tool.parameters, "openai"),
          required |-> RequiredNames(tool.parameters),
          output_schema |-> tool.output_schema]
    ELSE [name |-> tool.name,
          description |-> tool.description,
          parameters |-> Properties(tool.parameters, "openai"),
          required |-> RequiredNames(tool.parameters)]

ReturnsIntro == << "\\Returns a dictionary with schema: " >>

\* Tool.as_natural_language
ToolNaturalLanguage(tool) ==
    << "Function " >> \o tool.name \o << ":", " " >> \o tool.description
        \o << ". Parameters:\n" >>
        \o (IF Len(tool.parameters) = 0 THEN << "No parameters." >>
            ELSE Join(<< >>, [ k \in 1..Len(tool.parameters) |->
                     << "\t" >> \o ParameterNaturalLanguage(tool.parameters[k])
                         \o << "\n" >> ]))
        \o (IF tool.output_schema # NoneValue
            THEN ReturnsIntro \o json_dumps_indent2(tool.output_schema)
            ELSE << >>)

\* Tool.as_standard_api
ToolStandardApi(tool) ==
    [name |-> tool.name,
     description |-> tool.description,
     parameters |-> [ k \in 1..Len(tool.parameters) |->
                         ParameterStandardApi(tool.parameters[k]) ]]

\* the rendering of a Tool in one of the forms
ToolRendering(form, tool) ==
    CASE form = "openai" -> ToolOpenaiInfo(tool)
      [] form = "gemini" -> ToolGeminiTool(tool)
      [] form = "llama" -> ToolLlamaSchema(tool)
      [] form = "natural" -> ToolNaturalLanguage(tool)
      [] form = "standard" -> ToolStandardApi(tool)
      [] form = "documented" -> ToolDocumentedPython(tool)

\* one of the renderings of the Tool is asked for
ToolRender(form) ==
    /\ component = "tool"
    /\ t_render[form] = NotReturned
    /\ t_render' = [t_render EXCEPT ![form] = Rendered(ToolRendering(form, t_tool))]
    /\ UNCHANGED << component, t_tool, t_call >>
    /\ UNCHANGED << negVars, progVars, checkVars, paramVars,
                 legacyVars >>

(***************************************************************************)
(* ReceiverProtocolChecker                                                 *)
(***************************************************************************)
CHECKER_TOOL_PROMPT == << "CHECKER_TOOL_PROMPT" >>
CheckerDocumentIntro == << "Protocol document:\n\n" >>
CheckerFunctionsIntro == << "Functions that the implementer will have access to:\n\n" >>
NoFunctions == << "No additional functions provided" >>
Yes == << "y", "e", "s" >>
VerdictWindow == 10

\* the tool sequences the caller passes
ToolSets == { << >>, << ToolA, ToolB >> }

\* pieces the backend's verdict replies are made of: the verdict in two
\* cases, fillers, whitespace, and capital letters with a dot above, each of
\* which lower() turns into two characters
ReplyChunks ==
    << << "y", "e", "s" >>, << "Y", "E", "S" >>,
       << "0", "1", "2", "3", "4", "5", "6" >>, << "." >>,
       << " ", "\f", "U+00A0" >>,
       << "U+0130", "U+0130", "U+0130", "U+0130" >> >>
CheckerReplies == Concats(ReplyChunks, MaxReplyChunks)

\* ReceiverProtocolChecker(toolformer)
NewChecker ==
    /\ component = "none"
    /\ component' = "checker"
    /\ UNCHANGED << negVars, progVars, checkVars, toolVars, paramVars,
                 legacyVars >>

\* mutant: the tools are documented last to first
M_CheckerMessage(protocol_document, tools) ==
    CheckerDocumentIntro \o protocol_document \o << "\n", "\n" >> \o CheckerFunctionsIntro
        \o (IF Len(tools) = 0 THEN NoFunctions
            ELSE Join(<< >>, [ k \in 1..Len(tools) |->
                     ToolDocumentedPython(tools[Len(tools) + 1 - k]) \o << "\n", "\n" >> ]))

\* the message of the capability query
CheckerMessage(protocol_document, tools) ==
    CheckerDocumentIntro \o protocol_document \o << "\n", "\n" >> \o CheckerFunctionsIntro
        \o (IF Len(tools) = 0 THEN NoFunctions
            ELSE Join(<< >>, [ k \in 1..Len(tools) |->
                     ToolDocumentedPython(tools[k]) \o << "\n", "\n" >> ]))

\* entry of __call__: the message is built, a Conversation is opened and
\* conversation.chat(message) is called
CheckStart(protocol_document, tools) ==
    /\ component = "checker"
    /\ cpc \in {"idle", "returned"}
    /\ c_convs < MaxChecks
    /\ c_protocol_document' = protocol_document
    /\ c_tools' = tools
    /\ c_message' = CheckerMessage(protocol_document, tools)
    /\ LET conversation == new_conversation(CHECKER_TOOL_PROMPT, << >>, c_conv)
       IN /\ c_prompt' = conversation.prompt
          /\ c_conv_tools' = conversation.tools
          /\ c_conv' = Append(conversation.history,
                              UserTurn(CheckerMessage(protocol_document, tools)))
    /\ c_convs' = c_convs + 1
    /\ c_result' = NotReturned
    /\ cpc' = "chat"
    /\ UNCHANGED << component, c_log >>
    /\ UNCHANGED << negVars, progVars, toolVars, paramVars,
                 legacyVars >>

\* 'yes' in reply.lower().strip()[-10:]
CheckerDecision(reply) == Contains(Last(Strip(Lower(reply)), VerdictWindow), Yes)

\* the replies the backend can give to the check that is under way: any
\* verdict text in the first check, the first check's reply again or a plain
\* "no" in a repeated one
CheckerRepliesAt(log) ==
    IF log = << >> THEN CheckerReplies
    ELSE { log[1].conv[Len(log[1].conv)].content, << "n", "o" >> }

\* the conversation call returns reply; the decision is returned
CheckReply(reply) ==
    /\ cpc = "chat"
    /\ c_conv' = Append(c_conv, AssistantTurn(reply))
    /\ c_result' = [tag |-> "Bool", value |-> CheckerDecision(reply)]
    /\ c_log' = Append(c_log, [protocol_document |-> c_protocol_document,
                               tools |-> c_tools,
                               message |-> c_message,
                               conv |-> Append(c_conv, AssistantTurn(reply)),
                               result |-> CheckerDecision(reply)])
    /\ cpc' = "returned"
    /\ UNCHANGED << component, c_protocol_document, c_tools, c_message, c_prompt,
                    c_conv_tools, c_convs >>
    /\ UNCHANGED << negVars, progVars, toolVars, paramVars,
                 legacyVars >>

\* the conversation call fails: the exception leaves __call__
CheckConversationRaises ==
    /\ cpc = "chat"
    /\ c_conv' = Append(c_conv, FailedTurn)
    /\ cpc' = "raised"
    /\ UNCHANGED << component, c_protocol_document, c_tools, c_message, c_prompt,
                    c_conv_tools, c_convs, c_result, c_log >>
    /\ UNCHANGED << negVars, progVars, toolVars, paramVars,
                 legacyVars >>

(***************************************************************************)
(* The system                                                              *)
(***************************************************************************)
Init ==
    /\ component = "none"
    /\ max_rounds = 0
    /\ npc = [r \in Runs |-> "idle"]
    /\ n_i = [r \in Runs |-> 0]
    /\ other_message = [r \in Runs |-> None]
    /\ message = [r \in Runs |-> None]
    /\ found_protocol = [r \in Runs |-> NoneValue]
    /\ n_result = [r \in Runs |-> NotReturned]
    /\ n_conv = [r \in Runs |-> << >>]
    /\ n_prompt = [r \in Runs |-> None]
    /\ cb_args = [r \in Runs |-> << >>]
    /\ cb_resps = [r \in Runs |-> << >>]
    /\ n_error = [r \in Runs |-> "none"]
    /\ num_attempts = 0
    /\ p_task_schema = NoneValue
    /\ p_protocol_document = None
    /\ ppc = "idle"
    /\ p_i = 0
    /\ p_message = None
    /\ implementation = Unbound
    /\ p_extracted = None
    /\ p_conv = << >>
    /\ p_result = NotReturned
    /\ p_error = "none"
    /\ c_protocol_document = None
    /\ c_tools = << >>
    /\ cpc = "idle"
    /\ c_message = None
    /\ c_conv = << >>
    /\ c_prompt = None
    /\ c_conv_tools = << >>
    /\ c_convs = 0
    /\ c_result = NotReturned
    /\ c_log = << >>
    /\ t_tool = NoneValue
    /\ t_render = [form \in ToolForms |-> NotReturned]
    /\ t_call = NoneValue
    /\ par_schema = NoneValue
    /\ par_param = NoneValue
    /\ par_error = "none"
    /\ par_render = [form \in ParameterForms |-> NotReturned]
    /\ par_rebuilt = NotReturned
    /\ l_pc = "idle"
    /\ l_i = 0
    /\ l_error = "none"
    /\ l_result = NotReturned

Next ==
    \/ \E R \in 0..MaxRounds : NewNegotiator(R)
    \/ \E R \in 0..MaxConcurrentRounds : NewNegotiatorForConcurrentRuns(R)
    \/ \E r \in Runs, t \in TaskSchemaTexts, a \in AdditionalInfos : NegStart(r, t, a)
    \/ \E r \in Runs : NegSend(r)
    \/ \E r \in Runs, reply \in NegRepliesOf(component) : NegReply(r, reply)
    \/ \E r \in Runs : NegConversationRaises(r)
    \/ \E r \in Runs, response \in CallbackResponsesOf(component) :
           NegCallbackReturns(r, response)
    \/ \E r \in Runs : NegCallbackRaises(r)
    \/ \E r \in Runs : NegReturnAfterLoop(r)
    \/ \E N \in 0..MaxAttempts : NewProgrammer(N)
    \/ \E t \in TaskSchemas, d \in ProtocolDocuments : ProgStart(t, d)
    \/ ProgSend
    \/ ppc = "chat" /\ \E reply \in ProgReplies(p_i) : ProgReply(reply)
    \/ ProgConversationRaises
    \/ ProgLoopExhausted
    \/ NewChecker
    \/ \E d \in ProtocolDocuments, tools \in ToolSets : CheckStart(d, tools)
    \/ cpc = "chat" /\ \E reply \in CheckerRepliesAt(c_log) : CheckReply(reply)
    \/ CheckConversationRaises
    \/ \E tool \in Tools : NewTool(tool)
    \/ \E outcome \in FunctionOutcomes : ToolCallForToolformer(outcome)
    \/ \E outcome \in FunctionOutcomes : ToolCallExecutable(outcome)
    \/ \E form \in ToolForms : ToolRender(form)
    \/ \E p \in Parameters : NewParameter(p)
    \/ \E schema \in OpenaiSchemas, required \in BOOLEAN :
           ParameterFromOpenaiApi(<< "p" >>, schema, required)
    \/ \E form \in ParameterForms : ParamRender(form)
    \/ ParamRoundTrip
    \/ \E on_instance, names_bound \in BOOLEAN : LegacyStart(on_instance, names_bound)
    \/ LegacySend
    \/ \E reply \in LegacyReplies : LegacyReply(reply)
    \/ LegacyConversationRaises
    \/ \E result \in LegacyOtherPartyResults : LegacyOtherPartyReturns(result)
    \/ LegacyOtherPartyRaises
    \/ LegacyReturnAfterLoop

Spec == Init /\ [][Next]_vars

\* the steps run r of negotiate_protocol_for_task takes once it was started
NegStep(r) ==
    \/ NegSend(r)
    \/ \E reply \in NegRepliesOf(component) : NegReply(r, reply)
    \/ NegConversationRaises(r)
    \/ \E response \in CallbackResponsesOf(component) : NegCallbackReturns(r, response)
    \/ NegCallbackRaises(r)
    \/ NegReturnAfterLoop(r)

\* every step a run can take is eventually taken: the calls it makes return
\* (or fail), and no run is kept from running by another
FairSpec == Spec /\ \A r \in Runs : WF_vars(NegStep(r))

(***************************************************************************)
(* Observations used by the properties                                     *)
(***************************************************************************)
\* the contents of the turns of one role, in order
RECURSIVE TurnsOf(_, _)
TurnsOf(history, role) ==
    IF history = << >> THEN << >>
    ELSE IF Head(history).role = role
         THEN << Head(history).content >> \o TurnsOf(Tail(history), role)
         ELSE TurnsOf(Tail(history), role)

NegSent(r) == TurnsOf(n_conv[r], "user")
NegReplied(r) == TurnsOf(n_conv[r], "assistant")
ProgSent == TurnsOf(p_conv, "user")
ProgReplied == TurnsOf(p_conv, "assistant")

\* the 0-based positions where p occurs in s
Occurrences(s, p) == { i \in 0..(Len(s) - Len(p)) : MatchAt(s, p, i) }

\* the pairs <<i, j>>: an opening tag at i and a closing tag at j after it
TagPairs(text, open, close) ==
    { ij \in Occurrences(text, open) \X Occurrences(text, close) :
          ij[2] >= ij[1] + Len(open) }

\* text holds an extractable open ... close block
HasBlock(text, open, close) == TagPairs(text, open, close) # {}

\* the body of the block: from the first opening tag to the first closing tag after it
BlockBody(text, open, close) ==
    LET i == CHOOSE i \in Occurrences(text, open) :
                 \A k \in Occurrences(text, open) : i <= k
        j == CHOOSE j \in Occurrences(text, close) :
                 /\ j >= i + Len(open)
                 /\ \A k \in Occurrences(text, close) : k >= i + Len(open) => j <= k
    IN SubSeq(text, i + Len(open) + 1, j)

HasProtocolBlock(text) == HasBlock(text, FINALPROTOCOL_OPEN, FINALPROTOCOL_CLOSE)
HasImplementationBlock(text) == HasBlock(text, IMPLEMENTATION_OPEN, IMPLEMENTATION_CLOSE)

NegEnded(r) == npc[r] \in {"returned", "raised"}

\* a response of other_party's contract: success with a body, or a failure
\* with its reason
IsSuccess(response) == ~NegResponseKeyError(response) /\ response.status = "success"
IsFailure(response) == ~NegResponseKeyError(response) /\ response.status # "success"

\* every call run r made so far was answered: the Conversation gave replies,
\* other_party gave responses of its contract
CallsWereAnswered(r) ==
    /\ TurnsOf(n_conv[r], "failure") = << >>
    /\ n_error[r] # "CallbackError"
    /\ \A k \in 1..Len(cb_resps[r]) :
           IsSuccess(cb_resps[r][k]) \/ IsFailure(cb_resps[r][k])
Extracted(r) == npc[r] = "returned" /\ n_result[r].tag = "Protocol"
Exhausted(r) == npc[r] = "returned" /\ n_result[r] = NoneValue

(***************************************************************************)
(* C1. For every round bound R and every sequence of replies and responses *)
(* a negotiation terminates and makes at most R conversation turns; when   *)
(* every call it made was answered with a reply or a response, it ends in  *)
(* exactly one of EXTRACTED (a Protocol is returned) and EXHAUSTED         *)
(* (nothing is returned).                                                  *)
(***************************************************************************)
C1_TerminatesWithinRounds ==
    /\ [](\A r \in Runs :
            /\ Len(NegSent(r)) <= max_rounds
            /\ Len(cb_args[r]) <= max_rounds
            /\ (NegEnded(r) /\ CallsWereAnswered(r)) =>
                   /\ npc[r] = "returned"
                   /\ (Extracted(r) /\ ~Exhausted(r))
                          \/ (Exhausted(r) /\ ~Extracted(r)))
    /\ \A r \in Runs : (npc[r] # "idle") ~> NegEnded(r)

\* a negotiation that used all of its three or more rounds and found nothing
C1_Witness ==
    \E r \in Runs :
        /\ Exhausted(r)
        /\ max_rounds >= 3
        /\ Len(NegSent(r)) = max_rounds

(***************************************************************************)
(* C2. When none of the R replies holds an extractable FINALPROTOCOL       *)
(* block, the negotiation ends by returning None: it does not raise,       *)
(* whatever mix of success and failure responses other_party gave.         *)
(***************************************************************************)
C2_ExhaustionReturnsNone ==
    \A r \in Runs :
        ( /\ component = "negotiator"
          /\ Len(NegReplied(r)) = max_rounds
          /\ \A k \in 1..Len(NegReplied(r)) : ~HasProtocolBlock(NegReplied(r)[k])
          /\ CallsWereAnswered(r)
          /\ NegEnded(r) )
        => /\ npc[r] = "returned"
           /\ n_result[r] = NoneValue
           /\ n_error[r] = "none"

\* R = 1, a first reply without a block, other_party answered with a failure
C2_Witness ==
    \E r \in Runs :
        /\ max_rounds = 1
        /\ NegEnded(r)
        /\ Len(NegReplied(r)) = 1
        /\ ~HasProtocolBlock(NegReplied(r)[1])
        /\ Len(cb_resps[r]) = 1
        /\ IsFailure(cb_resps[r][1])

(***************************************************************************)
(* C3. The first reply that holds an extractable block ends the            *)
(* negotiation in EXTRACTED: it is the last reply, no further conversation *)
(* turn is made, it is not forwarded to other_party, and the returned      *)
(* Protocol has the body of that reply's block and the metadata parsed     *)
(* from that body.                                                         *)
(***************************************************************************)
C3_FirstBlockIsExtracted ==
    \A r \in Runs :
        \A k \in 1..Len(NegReplied(r)) :
            HasProtocolBlock(NegReplied(r)[k]) =>
                /\ k = Len(NegReplied(r))
                /\ Len(NegSent(r)) = k
                /\ Len(cb_args[r]) = k - 1
                /\ \A m \in 1..Len(cb_args[r]) : ~HasProtocolBlock(cb_args[r][m])
                /\ Extracted(r)
                /\ n_result[r].protocol_document =
                       BlockBody(NegReplied(r)[k], FINALPROTOCOL_OPEN, FINALPROTOCOL_CLOSE)
                /\ n_result[r].metadata = extract_metadata(n_result[r].protocol_document)
                /\ n_result[r] = found_protocol[r]

\* a block with a metadata header extracted in the third round
C3_Witness ==
    \E r \in Runs :
        /\ Extracted(r)
        /\ Len(NegReplied(r)) = 3
        /\ n_result[r].metadata.name = << "P" >>
        /\ n_result[r].metadata.multiround

(***************************************************************************)
(* C4. The message of round 0 is the greeting; the message of round n >= 1 *)
(* is decided by round n-1 alone: other_party was called with the reply of *)
(* round n-1, and when it answered with success the message of round n is  *)
(* exactly the body it returned.                                           *)
(***************************************************************************)
C4_MessageFollowsPreviousRound ==
    \A r \in Runs :
        \A n \in 1..Len(NegSent(r)) :
            IF n = 1 THEN NegSent(r)[1] = Greeting
            ELSE /\ Len(cb_resps[r]) >= n - 1
                 /\ cb_args[r][n - 1] = NegReplied(r)[n - 1]
                 /\ ~HasProtocolBlock(NegReplied(r)[n - 1])
                 /\ IsSuccess(cb_resps[r][n - 1])
                        => NegSent(r)[n] = cb_resps[r][n - 1].body

\* three rounds in which other_party answered with two different bodies
C4_Witness ==
    \E r \in Runs :
        /\ Len(NegSent(r)) = 3
        /\ IsSuccess(cb_resps[r][1])
        /\ IsSuccess(cb_resps[r][2])
        /\ cb_resps[r][1].body # cb_resps[r][2].body
        /\ NegSent(r)[2] # NegSent(r)[3]

(***************************************************************************)
(* C5. A failure of other_party in a round does not abort the negotiation, *)
(* whether other_party returned a failure response or raised: the round    *)
(* counter advances, the next outgoing message is the error report that    *)
(* quotes the failure reason, and the negotiation ends only by extraction  *)
(* or when the rounds are used up.                                         *)
(***************************************************************************)
C5_FailureIsReportedAndNegotiationGoesOn ==
    \A r \in Runs :
        /\ \A n \in 1..Len(cb_resps[r]) :
               IsFailure(cb_resps[r][n]) =>
                   LET report == ErrorPrefix \o cb_resps[r][n].message
                   IN /\ n_i[r] >= n
                      /\ Len(NegSent(r)) > n => NegSent(r)[n + 1] = report
                      /\ Len(NegSent(r)) = n =>
                             /\ other_message[r] = report
                             /\ npc[r] = "loop" \/ (Exhausted(r) /\ n = max_rounds)
                      /\ Occurrences(report, cb_resps[r][n].message) # {}
        /\ n_error[r] # "CallbackError"

ProgEnded == ppc \in {"returned", "raised"}

\* no reply so far held an extractable IMPLEMENTATION block
NoImplementationSoFar ==
    \A k \in 1..Len(ProgReplied) : ~HasImplementationBlock(ProgReplied[k])

(***************************************************************************)
(* C6. When none of the N >= 1 replies holds an IMPLEMENTATION block, the  *)
(* synthesis fails with the ImplementationNotFound condition, not with a   *)
(* crash on the missing result.                                            *)
(***************************************************************************)
C6_FailsWithImplementationNotFound ==
    ( /\ component = "programmer"
      /\ num_attempts >= 1
      /\ Len(ProgReplied) = num_attempts
      /\ NoImplementationSoFar
      /\ ProgEnded )
    => /\ ppc = "raised"
       /\ p_error = "ImplementationNotFound"

(***************************************************************************)
(* C7. A synthesis makes at most N conversation turns: the first carries   *)
(* the task schema and the protocol document, each later one is the        *)
(* corrective message and is made only after replies without a block; the  *)
(* first reply with a block is the last one, and the adapter returned is   *)
(* derived from its block.                                                 *)
(***************************************************************************)
C7_AttemptsAndMessages ==
    /\ Len(ProgSent) <= num_attempts
    /\ \A n \in 1..Len(ProgSent) :
          IF n = 1
          THEN /\ Occurrences(ProgSent[1], json_dumps(p_task_schema)) # {}
               /\ Occurrences(ProgSent[1], p_protocol_document) # {}
               /\ ProgSent[1] # CorrectiveMessage
          ELSE /\ ProgSent[n] = CorrectiveMessage
               /\ \A m \in 1..(n - 1) : ~HasImplementationBlock(ProgReplied[m])
    /\ \A k \in 1..Len(ProgReplied) :
          HasImplementationBlock(ProgReplied[k]) =>
              /\ k = Len(ProgReplied)
              /\ Len(ProgSent) = k
              /\ ppc = "returned"
              /\ p_extracted =
                     BlockBody(ProgReplied[k], IMPLEMENTATION_OPEN, IMPLEMENTATION_CLOSE)
              /\ p_result = [tag |-> "Text", text |-> ProgSanitize(p_extracted)]
    /\ ppc = "returned" => ~NoImplementationSoFar

\* an adapter returned from the reply to the second corrective message
C7_Witness ==
    /\ ppc = "returned"
    /\ Len(ProgSent) = 3
    /\ ProgSent[2] = CorrectiveMessage
    /\ ProgSent[3] = CorrectiveMessage

(***************************************************************************)
(* C8. When the first reply holds an IMPLEMENTATION block, exactly one     *)
(* message is sent to the Conversation and the corrective message is       *)
(* never sent.                                                             *)
(***************************************************************************)
C8_BlockOnFirstAttemptNoCorrection ==
    ( Len(ProgReplied) >= 1 /\ HasImplementationBlock(ProgReplied[1]) )
    => /\ Len(ProgSent) = 1
       /\ ProgSent[1] # CorrectiveMessage
       /\ p_message # CorrectiveMessage
       /\ ppc = "returned"

\* a first reply with an (empty) block although more attempts were allowed
C8_Witness ==
    /\ num_attempts >= 2
    /\ Len(ProgReplied) = 1
    /\ HasImplementationBlock(ProgReplied[1])
    /\ p_extracted = << >>

\* the characters a fence language marker is made of
MarkerChars ==
    { "a", "b", "c", "d", "e", "f", "g", "h", "i", "j", "k", "l", "m", "n", "o",
      "p", "q", "r", "s", "t", "u", "v", "w", "x", "y", "z", "A", "B", "C", "D",
      "E", "F", "G", "H", "I", "J", "K", "L", "M", "N", "O", "P", "Q", "R", "S",
      "T", "U", "V", "W", "X", "Y", "Z", "0", "1", "2", "3", "4", "5", "6", "7",
      "8", "9" }

\* the length of the language marker that starts at 0-based index i of text
RECURSIVE MarkerLen(_, _)
MarkerLen(text, i) ==
    IF i >= Len(text) \/ text[i + 1] \notin MarkerChars THEN 0
    ELSE 1 + MarkerLen(text, i + 1)

\* every fence of the text is a line of its own: three backticks, a
\* language marker or none, and the end of the line
FencesAreLines(text) ==
    \A i \in Occurrences(text, Fence) :
        LET j == i + Len(Fence) + MarkerLen(text, i + Len(Fence))
        IN j = Len(text) \/ text[j + 1] = "\n"

\* the text without its fences and their language markers
RECURSIVE WithoutFences(_)
WithoutFences(text) ==
    IF text = << >> THEN << >>
    ELSE IF MatchAt(text, Fence, 0)
         THEN WithoutFences(Slice(text, Len(Fence) + MarkerLen(text, Len(Fence)),
                                  Len(text)))
         ELSE << Head(text) >> \o WithoutFences(Tail(text))

\* the output holds no triple backtick and no "def send_query(", and as many
\* "def run(" as the extracted text had declarations
NoFenceAndCanonicalEntryPoint ==
    ppc = "returned" =>
        /\ Occurrences(p_result.text, Fence) = {}
        /\ Occurrences(p_result.text, DefSendQuery) = {}
        /\ Cardinality(Occurrences(p_result.text, DefRun))
               >= Cardinality(Occurrences(p_extracted, DefSendQuery))
                      + Cardinality(Occurrences(p_extracted, DefRun))

\* of a text whose fences are lines, the output is what is left without the
\* fences and their language markers, with the entry point renamed
NoFenceLanguageMarker ==
    (ppc = "returned" /\ FencesAreLines(p_extracted)) =>
        p_result.text = Replace(Strip(WithoutFences(p_extracted)), DefSendQuery, DefRun)

\* the same for the texts whose fences have the marker python or none
NoFenceLanguageMarkerPython ==
    ( /\ ppc = "returned"
      /\ FencesAreLines(p_extracted)
      /\ \A i \in Occurrences(p_extracted, Fence) :
             \/ MarkerLen(p_extracted, i + Len(Fence)) = 0
             \/ /\ MatchAt(p_extracted, FencePython, i)
                /\ MarkerLen(p_extracted, i + Len(Fence)) = 6 )
    => p_result.text = Replace(Strip(WithoutFences(p_extracted)), DefSendQuery, DefRun)

(***************************************************************************)
(* C9. The adapter text returned for an extracted implementation holds no  *)
(* residual code-fence marker: no triple backtick, and nothing of the      *)
(* language marker of a fence.  Its entry point has the canonical name:    *)
(* no "def send_query(" is left and every declaration is a "def run(".     *)
(***************************************************************************)
C9_NoFenceAndCanonicalEntryPoint ==
    /\ NoFenceAndCanonicalEntryPoint
    /\ NoFenceLanguageMarker

\* "yes" starts at 1-based position i of t, whatever the case of its letters
YesAt(t, i) ==
    /\ i >= 1
    /\ i + 2 <= Len(t)
    /\ LowerChar(t[i]) = << "y" >>
    /\ LowerChar(t[i + 1]) = << "e" >>
    /\ LowerChar(t[i + 2]) = << "s" >>

\* the first position of the 10-character window at the end of t
WindowStart(t) == IF Len(t) <= 10 THEN 1 ELSE Len(t) - 9

\* the verdict the rule gives for a reply: "yes" within the last 10
\* characters of the trimmed reply
VerdictOfTrimmedReply(reply) ==
    LET t == Strip(reply)
    IN \E i \in WindowStart(t)..Len(t) : YesAt(t, i)

\* the check follows the rule for the replies that lower() leaves as long as
\* they are
RuleHoldsWhenLowerKeepsLength ==
    cpc = "returned" =>
        LET reply == c_conv[Len(c_conv)].content
        IN Len(Lower(reply)) = Len(reply) =>
               c_result.value = VerdictOfTrimmedReply(reply)

(***************************************************************************)
(* C10. The feasibility check returns true exactly when "yes", compared    *)
(* without regard to case, lies within the last 10 characters of the       *)
(* trimmed reply (within the whole trimmed reply when it is shorter).      *)
(***************************************************************************)
C10_YesWithinLastTenCharacters ==
    cpc = "returned" =>
        c_result.value = VerdictOfTrimmedReply(c_conv[Len(c_conv)].content)

\* the history holds a failed call
HasFailed(history) == \E k \in 1..Len(history) : history[k] = FailedTurn

\* the failed call is the last thing that happened in the history
FailedLast(history) ==
    /\ history[Len(history)] = FailedTurn
    /\ \A k \in 1..(Len(history) - 1) : history[k] # FailedTurn

(***************************************************************************)
(* C11. One feasibility check makes exactly one capability query: one new  *)
(* Conversation per check, created with the fixed evaluation prompt and no *)
(* tools, and exactly one message in it. The message starts with the       *)
(* protocol document; it ends with "No additional functions provided" when *)
(* no tool was given, and otherwise holds the documented form of every     *)
(* given tool, once per time the tool was given, in the given order.       *)
(***************************************************************************)
C11_OneCapabilityQuery ==
    cpc # "idle" =>
        LET sent == TurnsOf(c_conv, "user")
            m == sent[1]
            lead == CheckerDocumentIntro \o c_protocol_document
            rendering(k) == ToolDocumentedPython(c_tools[k])
            first(k) == Find(m, rendering(k), 0)
            given(k) == { j \in 1..Len(c_tools) : c_tools[j] = c_tools[k] }
        IN /\ c_convs = Len(c_log) + (IF cpc = "returned" THEN 0 ELSE 1)
           /\ c_prompt = CHECKER_TOOL_PROMPT
           /\ c_conv_tools = << >>
           /\ Len(sent) = 1
           /\ MatchAt(m, lead, 0)
           /\ IF Len(c_tools) = 0
              THEN /\ MatchAt(m, NoFunctions, Len(m) - Len(NoFunctions))
                   /\ Cardinality(Occurrences(m, NoFunctions)) = 1
              ELSE /\ ~Contains(m, NoFunctions)
                   /\ \A k \in 1..Len(c_tools) :
                        /\ Cardinality(Occurrences(m, rendering(k)))
                               = Cardinality(given(k))
                        /\ first(k) >= Len(lead)
                   /\ \A k \in 1..(Len(c_tools) - 1) :
                        c_tools[k] # c_tools[k + 1]
                            => first(k) + Len(rendering(k)) <= first(k + 1)

\* a check with two different tools has sent its message and returned
C11_Witness ==
    /\ cpc = "returned"
    /\ Len(c_tools) = 2
    /\ c_tools[1] # c_tools[2]
    /\ Len(TurnsOf(c_conv, "user")) = 1

(***************************************************************************)
(* C12. The feasibility check is idempotent: two checks with the same      *)
(* protocol document and tools send the same message, each to a            *)
(* Conversation that holds nothing else, and return the same boolean when  *)
(* the backend gives the same reply; a check under way changes neither the *)
(* checker nor the tools it was given.                                     *)
(***************************************************************************)
C12_CheckIsIdempotent ==
    /\ [](/\ \A i \in 1..Len(c_log) :
               /\ Len(c_log[i].conv) = 2
               /\ c_log[i].conv[1] = UserTurn(c_log[i].message)
               /\ c_log[i].conv[2].role = "assistant"
          /\ cpc = "chat" => c_conv = << UserTurn(c_message) >>
          /\ \A i, j \in 1..Len(c_log) :
               (/\ c_log[i].protocol_document = c_log[j].protocol_document
                /\ c_log[i].tools = c_log[j].tools)
                   => /\ c_log[i].message = c_log[j].message
                      /\ c_log[i].conv[2] = c_log[j].conv[2]
                             => c_log[i].result = c_log[j].result)
    /\ [][cpc = "chat" => /\ c_tools' = c_tools
                          /\ c_protocol_document' = c_protocol_document
                          /\ component' = component]_vars

\* the same check was made twice, the backend said yes both times
C12_Witness ==
    /\ Len(c_log) = 2
    /\ c_log[1].protocol_document = c_log[2].protocol_document
    /\ c_log[1].tools = c_log[2].tools
    /\ Len(c_log[1].tools) > 0
    /\ c_log[1].conv[2] = c_log[2].conv[2]
    /\ c_log[1].result
    /\ c_log[2].result

(***************************************************************************)
(* C13. A failure of the reasoning backend is never turned into a result:  *)
(* when the Conversation call fails, the call of the component ends with   *)
(* the error and returns nothing (no boolean, no Protocol, no adapter),    *)
(* the failed call is the last turn of the conversation, and other_party   *)
(* was called only for the replies that came before it.                    *)
(***************************************************************************)
C13_BackendFailureIsNoResult ==
    /\ HasFailed(c_conv) =>
           /\ cpc = "raised"
           /\ c_result = NotReturned
           /\ FailedLast(c_conv)
    /\ \A r \in Runs :
           HasFailed(n_conv[r]) =>
               /\ npc[r] = "raised"
               /\ n_error[r] = "ConversationError"
               /\ n_result[r] = NotReturned
               /\ FailedLast(n_conv[r])
               /\ Len(cb_args[r]) = Len(NegReplied(r))
               /\ Len(cb_resps[r]) = Len(cb_args[r])
    /\ HasFailed(p_conv) =>
           /\ ppc = "raised"
           /\ p_error = "ConversationError"
           /\ p_result = NotReturned
           /\ FailedLast(p_conv)

\* the backend failed in the second round of a negotiation
C13_Witness ==
    \E r \in Runs :
        /\ npc[r] = "raised"
        /\ HasFailed(n_conv[r])
        /\ Len(NegReplied(r)) = 1
        /\ Len(cb_resps[r]) = 1

(***************************************************************************)
(* C14. Tool.call_tool_for_toolformer never lets a failure of the tool's   *)
(* function out: when the function raises, the call returns a diagnostic   *)
(* string that ends with the failure text; when the function returns, the  *)
(* call returns that value unchanged. The function made by                 *)
(* Tool.as_executable_function lets the failure out.                       *)
(***************************************************************************)
C14_ToolCallFailureBecomesDiagnostic ==
    t_call # NoneValue =>
        /\ t_call.via = "toolformer" =>
               /\ t_call.result.kind = "return"
               /\ t_call.outcome.kind = "return" => t_call.result = t_call.outcome
               /\ t_call.outcome.kind = "raise" =>
                      /\ t_call.result.value # None
                      /\ Len(t_call.result.value) > Len(t_call.outcome.text)
                      /\ Last(t_call.result.value, Len(t_call.outcome.text))
                             = t_call.outcome.text
        /\ t_call.via = "routine" => t_call.result = t_call.outcome

\* the function raised with a failure text and the backend got a string
C14_Witness ==
    /\ t_call # NoneValue
    /\ t_call.via = "toolformer"
    /\ t_call.outcome.kind = "raise"
    /\ t_call.outcome.text # << >>
    /\ t_call.result.kind = "return"

(***************************************************************************)
(* C15. Round trip of the standard schema: for a Parameter p of any of the *)
(* four variants, from_standard_api(p.as_standard_api()) exists and gives  *)
(* a Parameter whose as_standard_api() equals p.as_standard_api().         *)
(***************************************************************************)
C15_StandardSchemaRoundTrip ==
    par_rebuilt # NotReturned =>
        /\ par_rebuilt.kind = "return"
        /\ ParameterStandardApi(par_rebuilt.value) = ParameterStandardApi(par_param)

\* p with the other required flag, another name, another description
OtherRequired(p) == [p EXCEPT !.required = ~p.required]
OtherName(p) == [p EXCEPT !.name = p.name \o << "2" >>]
OtherDescription(p) == [p EXCEPT !.description = p.description \o << "2" >>]

\* the four renderings the agreement is about
AgreeingForms == {"openai", "standard", "natural", "documented"}

(***************************************************************************)
(* C16. For a fixed Parameter of any variant the machine schema, the       *)
(* standard schema, the natural-language sentence and the documented form  *)
(* each state its name, its description and its required flag: a rendering *)
(* that was produced is not the rendering of a Parameter with another      *)
(* name, another description or the other required flag.                   *)
(***************************************************************************)
C16_RenderingsAgree ==
    \A form \in AgreeingForms :
        par_render[form] # NotReturned =>
            LET rendering == par_render[form].value
            IN /\ rendering # ParameterRendering(form, OtherName(par_param))
               /\ rendering # ParameterRendering(form, OtherDescription(par_param))
               /\ rendering # ParameterRendering(form, OtherRequired(par_param))

\* the types of the four Parameter variants
SupportedTypes == {"string", "enum", "number", "array"}

(***************************************************************************)
(* C18. Reconstructing a Parameter from a schema whose type is outside     *)
(* {string, enum, number, array} fails with the unsupported-type error     *)
(* (ValueError "Unknown parameter type") and gives no Parameter; a schema  *)
(* whose type is inside that set never fails with that error.              *)
(***************************************************************************)
C18_UnsupportedTypeFails ==
    (par_schema # NoneValue /\ "type" \in DOMAIN par_schema) =>
        /\ par_schema.type \notin SupportedTypes =>
               /\ par_error = "ValueError"
               /\ par_param = NoneValue
        /\ par_schema.type \in SupportedTypes => par_error # "ValueError"

\* the elements of a sequence
Range(seq) == { seq[k] : k \in 1..Len(seq) }

\* what the schema of one parameter says: its type, the values of an enum
\* (under the key the schema uses for them) and the item schema of an array,
\* each as the set of what the schema gives (empty when it gives none)
ParameterFacts(info, values_key) ==
    [type |-> info.type,
     values |-> IF values_key \in DOMAIN info THEN { info[values_key] } ELSE {},
     items |-> IF "items" \in DOMAIN info THEN { info.items } ELSE {}]

\* what the nested 'function' schema says
OpenaiFacts(o) ==
    [name |-> o.function.name,
     description |-> o.function.description,
     required |-> Range(o.function.parameters.required),
     parameters |-> [ n \in DOMAIN o.function.parameters.properties |->
                        ParameterFacts(o.function.parameters.properties[n], "values") ]]

\* what the flat schema says
LlamaFacts(l) ==
    [name |-> l.name,
     description |-> l.description,
     required |-> Range(l.required),
     parameters |-> [ n \in DOMAIN l.parameters |->
                        ParameterFacts(l.parameters[n], "values") ]]

\* what the declaration says; a Tool without parameters declares none
GeminiFacts(g) ==
    LET d == g.function_declarations[1]
    IN [name |-> d.name,
        description |-> d.description,
        required |-> IF d.parameters = NoneValue THEN {}
                     ELSE Range(d.parameters.required),
        parameters |-> IF d.parameters = NoneValue THEN [ n \in {} |-> NoneValue ]
                       ELSE [ n \in DOMAIN d.parameters.properties |->
                                ParameterFacts(d.parameters.properties[n], "enum") ]]

(***************************************************************************)
(* C17. For every Tool the nested 'function' schema (as_openai_info) and   *)
(* the flat schemas (as_llama_schema, as_gemini_tool) say the same: the    *)
(* Tool's name and description, the same parameter names, as required-set  *)
(* exactly the names of the required parameters, and per parameter the     *)
(* same type, enum values and array item schema.                           *)
(***************************************************************************)
C17_MachineSchemasAgree ==
    LET o == t_render["openai"]
        l == t_render["llama"]
        g == t_render["gemini"]
        parameters == t_tool.parameters
    IN /\ o # NotReturned =>
              /\ OpenaiFacts(o.value).name = t_tool.name
              /\ OpenaiFacts(o.value).description = t_tool.description
              /\ DOMAIN OpenaiFacts(o.value).parameters = { p.name : p \in Range(parameters) }
              /\ OpenaiFacts(o.value).required
                     = { p.name : p \in { q \in Range(parameters) : q.required } }
              /\ \A p \in Range(parameters) :
                     /\ p.kind = "enum" =>
                            OpenaiFacts(o.value).parameters[p.name].values = { p.values }
                     /\ p.kind = "array" =>
                            OpenaiFacts(o.value).parameters[p.name].items = { p.item_schema }
       /\ (o # NotReturned /\ l # NotReturned) =>
              OpenaiFacts(o.value) = LlamaFacts(l.value)
       /\ (o # NotReturned /\ g # NotReturned) =>
              OpenaiFacts(o.value) = GeminiFacts(g.value)
       /\ (l # NotReturned /\ g # NotReturned) =>
              LlamaFacts(l.value) = GeminiFacts(g.value)

\* the three machine schemas of a Tool with a required parameter, an enum
\* and an array were produced
C17_Witness ==
    /\ t_tool # NoneValue
    /\ t_render["openai"] # NotReturned
    /\ t_render["llama"] # NotReturned
    /\ t_render["gemini"] # NotReturned
    /\ \E p \in Range(t_tool.parameters) : p.required
    /\ \E p \in Range(t_tool.parameters) : p.kind = "enum"
    /\ \E p \in Range(t_tool.parameters) : p.kind = "array"

\* the text ends with the output schema as a JSON block
EndsWithSchema(text, schema) ==
    LET block == json_dumps_indent2(schema)
    IN MatchAt(text, block, Len(text) - Len(block))

(***************************************************************************)
(* C19. When a Tool has an output schema every rendering of the Tool       *)
(* carries it: the natural-language and documented forms end with it as a  *)
(* JSON block, the standard schema and the machine schemas (as_openai_info,*)
(* as_llama_schema) have a field output_schema holding it. When the Tool   *)
(* has no output schema, no rendering mentions one.                        *)
(***************************************************************************)
C19_OutputSchemaInEveryRendering ==
    t_tool # NoneValue =>
        LET schema == t_tool.output_schema
            HasField(r) == "output_schema" \in DOMAIN r
        IN /\ \A form \in {"natural", "documented"} :
                 t_render[form] # NotReturned =>
                     IF schema # NoneValue
                     THEN EndsWithSchema(t_render[form].value, schema)
                     ELSE ~Contains(t_render[form].value, ReturnsIntro)
           /\ \A form \in {"standard", "llama"} :
                 t_render[form] # NotReturned =>
                     IF schema # NoneValue
                     THEN /\ HasField(t_render[form].value)
                          /\ t_render[form].value.output_schema = schema
                     ELSE ~HasField(t_render[form].value)
           /\ t_render["openai"] # NotReturned =>
                 LET o == t_render["openai"].value
                 IN IF schema # NoneValue
                    THEN \/ HasField(o) /\ o.output_schema = schema
                         \/ HasField(o.function) /\ o.function.output_schema = schema
                    ELSE ~HasField(o) /\ ~HasField(o.function)

\* the lines of a text
RECURSIVE Lines(_)
Lines(text) ==
    LET j == Find(text, << "\n" >>, 0)
    IN IF j = -1 THEN << text >>
       ELSE << Slice(text, 0, j) >> \o Lines(Slice(text, j + 1, Len(text)))

\* the lines of the header of a block body: those between the pair of ---
\* lines at its top; none when the body does not start with such a pair
HeaderLines(body) ==
    LET ls == Lines(Strip(body))
        closing == { k \in 2..Len(ls) : Strip(ls[k]) = Dashes }
        end == CHOOSE k \in closing : \A j \in closing : k <= j
    IN IF Strip(ls[1]) = Dashes /\ closing # {} THEN SubSeq(ls, 2, end - 1)
       ELSE << >>

\* the header of the body has a line for the key; the value on that line
KeyPresent(body, key) ==
    \E k \in 1..Len(HeaderLines(body)) : MatchAt(HeaderLines(body)[k], key, 0)
EmbeddedValue(body, key) ==
    LET ls == HeaderLines(body)
        k == CHOOSE k \in 1..Len(ls) :
                 /\ MatchAt(ls[k], key, 0)
                 /\ \A j \in 1..(k - 1) : ~MatchAt(ls[j], key, 0)
    IN Strip(Slice(ls[k], Len(key), Len(ls[k])))

\* the metadata of a Protocol built by SenderNegotiator follow the header
HeaderMetadataHaveSentinels ==
    \A r \in Runs :
        Extracted(r) =>
            LET body == n_result[r].protocol_document
                metadata == n_result[r].metadata
            IN /\ metadata.name = IF KeyPresent(body, KeyName)
                                  THEN EmbeddedValue(body, KeyName)
                                  ELSE UnnamedProtocol
               /\ metadata.description = IF KeyPresent(body, KeyDescription)
                                         THEN EmbeddedValue(body, KeyDescription)
                                         ELSE << >>
               /\ metadata.multiround = IF KeyPresent(body, KeyMultiround)
                                        THEN Lower(EmbeddedValue(body, KeyMultiround))
                                                 = TrueText
                                        ELSE FALSE

\* the metadata of a found protocol of the earlier negotiator follow the tags
TagMetadataHaveSentinels ==
    (l_pc = "returned" /\ l_result # NoneValue) =>
        LET body == l_result.protocol
        IN /\ l_result.name = IF HasBlock(body, NAME_OPEN, NAME_CLOSE)
                              THEN BlockBody(body, NAME_OPEN, NAME_CLOSE)
                              ELSE UnnamedProtocol
           /\ l_result.description
                  = IF HasBlock(body, DESCRIPTION_OPEN, DESCRIPTION_CLOSE)
                    THEN BlockBody(body, DESCRIPTION_OPEN, DESCRIPTION_CLOSE)
                    ELSE << >>
           /\ "multiround" \in DOMAIN l_result
           /\ l_result.multiround = FALSE

BlocksReplied(r) ==
    { BlockBody(NegReplied(r)[k], FINALPROTOCOL_OPEN, FINALPROTOCOL_CLOSE) :
          k \in { m \in 1..Len(NegReplied(r)) : HasProtocolBlock(NegReplied(r)[m]) } }

\* p is a Protocol with every field populated from the one block
WholeProtocolOf(p, block) ==
    /\ DOMAIN p = {"tag", "protocol_document", "sources", "metadata"}
    /\ p.tag = "Protocol"
    /\ p.protocol_document = block
    /\ p.sources = << >>
    /\ p.metadata = extract_metadata(block)
    /\ DOMAIN p.metadata = {"name", "description", "multiround"}

(***************************************************************************)
(* C21. A negotiation never exposes a partial Protocol: in every state     *)
(* found_protocol and the returned value are either absent or a Protocol   *)
(* whose body and metadata both come from the same extracted block, and a  *)
(* Protocol is returned if and only if one of the replies (there are at    *)
(* most R) held an extractable block.                                      *)
(***************************************************************************)
C21_NoPartialProtocol ==
    \A r \in Runs :
        /\ \/ found_protocol[r] = NoneValue
           \/ \E block \in BlocksReplied(r) : WholeProtocolOf(found_protocol[r], block)
        /\ \/ n_result[r] \in {NotReturned, NoneValue}
           \/ /\ n_result[r] = found_protocol[r]
              /\ \E block \in BlocksReplied(r) : WholeProtocolOf(n_result[r], block)
        /\ Len(NegReplied(r)) <= max_rounds
        /\ (found_protocol[r] # NoneValue) <=> (BlocksReplied(r) # {})
        /\ NegEnded(r) => (Extracted(r) <=> (BlocksReplied(r) # {}))

\* a Protocol returned in the second round from a block without a header,
\* whose metadata are the sentinels
C21_Witness ==
    \E r \in Runs :
        /\ Extracted(r)
        /\ Len(NegReplied(r)) = 2
        /\ n_result[r].protocol_document = << "A" >>
        /\ n_result[r].metadata.name = UnnamedProtocol

\* everything one run of negotiate_protocol_for_task owns: its locals, its
\* Conversation, the calls it made and what it returned
RunState(r) ==
    << npc[r], n_i[r], other_message[r], message[r], found_protocol[r],
       n_result[r], n_conv[r], n_prompt[r], cb_args[r], cb_resps[r],
       n_error[r] >>

\* what a run was given: its prompt, the replies of its Conversation (or its
\* failure) and the responses of other_party (or its exception)
SameInputs(r, q) ==
    /\ n_prompt[r] = n_prompt[q]
    /\ NegReplied(r) = NegReplied(q)
    /\ HasFailed(n_conv[r]) = HasFailed(n_conv[q])
    /\ cb_resps[r] = cb_resps[q]
    /\ (n_error[r] = "CallbackError") = (n_error[q] = "CallbackError")

\* one of the two sequences continues the other
Comparable(s, t) ==
    \/ Len(s) <= Len(t) /\ s = SubSeq(t, 1, Len(s))
    \/ Len(t) <= Len(s) /\ t = SubSeq(s, 1, Len(t))

(***************************************************************************)
(* C22. Negotiations that run concurrently on one SenderNegotiator do not  *)
(* influence each other.  A step changes the state of one run only (its    *)
(* Conversation, round counter, outgoing message, found Protocol, result). *)
(* What a run sends and returns is decided by what that run was given:     *)
(* two runs given the same prompt, replies and responses, however their    *)
(* rounds were interleaved (also not at all: one alone, then the other),   *)
(* hold the same round counter, outgoing message and found Protocol, send  *)
(* the same messages in the same order, and end with the same outcome.     *)
(***************************************************************************)
C22_ConcurrentRunsAreIndependent ==
    /\ [](\A r, q \in Runs :
            SameInputs(r, q) =>
                /\ n_i[r] = n_i[q]
                /\ other_message[r] = other_message[q]
                /\ found_protocol[r] = found_protocol[q]
                /\ Comparable(NegSent(r), NegSent(q))
                /\ Comparable(cb_args[r], cb_args[q])
                /\ (NegEnded(r) /\ NegEnded(q)) =>
                       /\ npc[r] = npc[q]
                       /\ n_error[r] = n_error[q]
                       /\ n_result[r] = n_result[q]
                       /\ NegSent(r) = NegSent(q)
                       /\ cb_args[r] = cb_args[q])
    /\ [][\A r \in Runs :
            RunState(r)' # RunState(r) =>
                \A q \in Runs \ {r} : RunState(q)' = RunState(q)]_vars

\* two runs of one negotiator, both in their second round with a
\* conversation call in flight, after other_party failed towards each
C22_Witness ==
    /\ component = "concurrent_negotiations"
    /\ \A r \in Runs :
          /\ npc[r] = "chat"
          /\ n_i[r] = 1
          /\ IsFailure(cb_resps[r][1])
          /\ Len(NegSent(r)) = 2
    /\ SameInputs("run1", "run2")

\* the calls against a Conversation that were started and have neither
\* returned nor failed
ConversationCallsInFlight(history) ==
    Len(TurnsOf(history, "user")) - Len(TurnsOf(history, "assistant"))
        - Len(TurnsOf(history, "failure"))

\* the other_party calls of run r that were started and have neither
\* returned nor raised
OtherPartyCallsInFlight(r) ==
    Len(cb_args[r]) - Len(cb_resps[r])
        - (IF n_error[r] = "CallbackError" THEN 1 ELSE 0)

\* calls and their results alternate in the history, a call first
Alternates(history) ==
    \A k \in 1..Len(history) : (history[k].role = "user") <=> (k % 2 = 1)

(***************************************************************************)
(* C23. Within one negotiation and within one synthesis the external calls *)
(* are sequential and alternate.  At most one call is in flight in all: a  *)
(* conversation turn or an other_party call, never two against the same    *)
(* Conversation.  The conversation turn of round n is started only when    *)
(* the other_party call of round n-1 has returned, and the other_party     *)
(* call of round n only when the conversation turn of round n has          *)
(* returned.                                                               *)
(***************************************************************************)
C23_CallsAreSequential ==
    /\ \A r \in Runs :
          /\ ConversationCallsInFlight(n_conv[r]) \in {0, 1}
          /\ OtherPartyCallsInFlight(r) \in {0, 1}
          /\ ConversationCallsInFlight(n_conv[r]) + OtherPartyCallsInFlight(r) <= 1
          /\ Alternates(n_conv[r])
          /\ \A n \in 2..Len(NegSent(r)) : Len(cb_resps[r]) >= n - 1
          /\ \A n \in 1..Len(cb_args[r]) : Len(NegReplied(r)) >= n
          /\ Len(cb_resps[r]) = n_i[r] + (IF n_error[r] = "KeyError" THEN 1 ELSE 0)
          /\ OtherPartyCallsInFlight(r) = 1 <=> npc[r] = "callback"
    /\ ConversationCallsInFlight(p_conv) \in {0, 1}
    /\ Alternates(p_conv)
    /\ \A n \in 2..Len(ProgSent) : Len(ProgReplied) >= n - 1

\* the other_party call of the third round is in flight
C23_Witness ==
    \E r \in Runs :
        /\ npc[r] = "callback"
        /\ Len(NegSent(r)) = 3
        /\ Len(NegReplied(r)) = 3
        /\ Len(cb_args[r]) = 3
        /\ Len(cb_resps[r]) = 2

(***************************************************************************)
(* C24. In every state of a negotiation with round bound R the number of   *)
(* other_party calls is the number of conversation turns or one less, and  *)
(* there are at most R conversation turns.  A negotiation that ended in    *)
(* EXTRACTED made one conversation turn more than other_party calls; one   *)
(* that ended in EXHAUSTED made R of each: other_party was called with the *)
(* reply of the last round too, and what it answered was never sent to the *)
(* Conversation.                                                           *)
(***************************************************************************)
C24_TurnsAndCallbackCalls ==
    \A r \in Runs :
        LET conversationTurns == Len(NegSent(r))
            callbackCalls == Len(cb_args[r])
        IN /\ callbackCalls <= conversationTurns
           /\ conversationTurns <= callbackCalls + 1
           /\ conversationTurns <= max_rounds
           /\ Extracted(r) => conversationTurns = callbackCalls + 1
           /\ Exhausted(r) =>
                 /\ conversationTurns = max_rounds
                 /\ callbackCalls = max_rounds
                 /\ Len(cb_resps[r]) = max_rounds
                 /\ Len(NegReplied(r)) = max_rounds
                 /\ max_rounds >= 1 =>
                       /\ cb_args[r][max_rounds] = NegReplied(r)[max_rounds]
                       /\ n_conv[r][Len(n_conv[r])] =
                              AssistantTurn(NegReplied(r)[max_rounds])

\* a negotiation that ended in EXHAUSTED after two rounds, the last answer
\* of other_party being a body that no conversation turn carried
C24_Witness ==
    \E r \in Runs :
        /\ Exhausted(r)
        /\ max_rounds = 2
        /\ IsSuccess(cb_resps[r][2])
        /\ \A n \in 1..Len(NegSent(r)) : NegSent(r)[n] # cb_resps[r][2].body

\* with max_rounds = 0 a negotiation makes no conversation turn and no
\* other_party call, and what it returns is None
ZeroRoundsReturnNothing ==
    \A r \in Runs :
        (max_rounds = 0 /\ npc[r] # "idle") =>
            /\ n_conv[r] = << >>
            /\ cb_args[r] = << >>
            /\ npc[r] \in {"loop", "returned"}
            /\ npc[r] = "returned" => n_result[r] = NoneValue

\* with num_attempts = 0 a synthesis makes no conversation turn, returns no
\* adapter text, and fails as a synthesis whose attempts are used up fails
\* (implementation is None after the loop), with ImplementationNotFound
ZeroAttemptsFailLikeExhaustion ==
    (component = "programmer" /\ num_attempts = 0 /\ ppc # "idle") =>
        /\ p_conv = << >>
        /\ p_result = NotReturned
        /\ ppc \in {"loop", "raised"}
        /\ ppc = "raised" =>
              /\ p_error = ProgAfterLoop(None).error
              /\ p_error = "ImplementationNotFound"

(***************************************************************************)
(* C25. Zero bounds behave like exhaustion: with max_rounds = 0 the        *)
(* negotiator returns None without a conversation turn and without an      *)
(* other_party call; with num_attempts = 0 the synthesizer makes no        *)
(* conversation turn, never returns adapter text, and fails with the same  *)
(* ImplementationNotFound condition as when all attempts are used up.      *)
(***************************************************************************)
C25_ZeroBoundsBehaveLikeExhaustion ==
    /\ ZeroRoundsReturnNothing
    /\ ZeroAttemptsFailLikeExhaustion

====
